---- MODULE Spec2Model ----
(***************************************************************************)
(* Label block mutation pipeline, label index (Meta) store and sparse      *)
(* volume reads of the labelarray / labels64 datatypes of DVID.            *)
(*                                                                         *)
(* Block coordinates (IZYX strings) are modelled by the integers           *)
(* 1..MaxBlock, whose numeric order stands for the lexicographic order of  *)
(* the 12-byte strings.  A label block is modelled by the number of voxels *)
(* each label has in it; label 0 is the background label.                  *)
(***************************************************************************)
EXTENDS Integers, Sequences, FiniteSets, TLC

\* ---------------------------------------------------------------- bounds
MaxLabel == 1
MaxBlock == 2
BlockVoxels == 1
MaxPuts == 2
MaxFaults == 1
IndexChCap == 1
TokenCapacity == 2
VoxelRange == 65536
BatchSize == 2
BlockX == 3
MaxVersion == 3
MaxPosition == 3
KVWriteSize == 2
CacheSize == 2
MaxChanges == 2

\* number of label index shards (labelarray constant, not in the sources)
numLabelHandlers == 2

\* getLegacySlowRLEs: number of decoder goroutines, capacity of each decoder's
\* channel and of the collector's channel
blockDecoders == 10
sendChCap == 10
getChCap == 100

presentOld == 1
presentNew == 2

\* storage key prefixes of the two key families
metadataKeyPrefix == 0
dataKeyPrefix == 1

\* dvid.InstanceIDSize and dvid.VersionIDSize (declared outside the sources)
InstanceIDSize == 4
VersionIDSize == 4

LabelSet == 0..MaxLabel
Blocks == 1..MaxBlock
Puts == 1..MaxPuts
Shards == 0..(numLabelHandlers - 1)

\* ------------------------------------------------------- label blocks
RECURSIVE SumOver(_, _)
SumOver(f, S) ==
    IF S = {} THEN 0
    ELSE LET x == CHOOSE y \in S : TRUE IN f[x] + SumOver(f, S \ {x})

\* a block with no stored value
NoBlock == [l \in LabelSet |-> 0]

\* the possible contents of one block: voxels per label, BlockVoxels in all
Contents == {c \in [LabelSet -> 0..BlockVoxels] : SumOver(c, LabelSet) = BlockVoxels}

\* labels.Block.Labels: the distinct labels of a block
BlockLabels(c) == {l \in LabelSet : c[l] > 0}

\* ------------------------------------------------------- IZYXSlice
IsSorted(s) == \A i \in 1..(Len(s) - 1) : s[i] < s[i + 1]

RECURSIVE Insert(_, _)
Insert(s, x) ==
    IF s = <<>> THEN <<x>>
    ELSE IF x < s[1] THEN <<x>> \o s
    ELSE <<s[1]>> \o Insert(Tail(s), x)

\* sort.Sort on an IZYXSlice
RECURSIVE SortIZYX(_)
SortIZYX(s) == IF s = <<>> THEN <<>> ELSE Insert(SortIZYX(Tail(s)), s[1])

\* IZYXSlice.Merge: merge of two sorted slices, equal entries kept once
RECURSIVE Merge(_, _)
Merge(a, b) ==
    IF a = <<>> THEN b
    ELSE IF b = <<>> THEN a
    ELSE IF a[1] < b[1] THEN <<a[1]>> \o Merge(Tail(a), b)
    ELSE IF a[1] = b[1] THEN <<a[1]>> \o Merge(Tail(a), Tail(b))
    ELSE <<b[1]>> \o Merge(a, Tail(b))

\* IZYXSlice.Delete: removal of a sorted slice from a sorted slice
RECURSIVE Delete(_, _)
Delete(a, d) ==
    IF a = <<>> THEN <<>>
    ELSE IF d = <<>> THEN a
    ELSE IF a[1] < d[1] THEN <<a[1]>> \o Delete(Tail(a), d)
    ELSE IF a[1] = d[1] THEN Delete(Tail(a), Tail(d))
    ELSE Delete(a, Tail(d))

\* ------------------------------------------------------- Meta
EmptyMeta == [Voxels |-> 0, Blocks |-> <<>>]

\* Meta.MarshalBinary: the voxel count followed by the block entries
MarshalBinary(m) == <<m.Voxels>> \o m.Blocks

\* Meta.UnmarshalBinary (input of at least the voxel count)
UnmarshalBinary(b) == [Voxels |-> b[1], Blocks |-> Tail(b)]

\* uint64(int64(x)) wrap-around of the voxel count
WrapVoxels(x) == x % VoxelRange

\* the order in which a range over a blockDiffMap visits the blocks having
\* the given presence: Go leaves it unspecified, descending is one such order
RECURSIVE RangeOrder(_)
RangeOrder(S) ==
    IF S = {} THEN <<>>
    ELSE LET m == CHOOSE x \in S : \A y \in S : y <= x
         IN <<m>> \o RangeOrder(S \ {m})

applyChanges_NoSort(m, bdm) ==
    LET present == RangeOrder({b \in DOMAIN bdm : bdm[b].present})
        absent == RangeOrder({b \in DOMAIN bdm : ~bdm[b].present})
        deltas == [b \in DOMAIN bdm |-> bdm[b].delta]
    IN [Voxels |-> WrapVoxels(m.Voxels + SumOver(deltas, DOMAIN bdm)),
        Blocks |-> Merge(Delete(m.Blocks, absent), present)]

applyChanges_NoDelete(m, bdm) ==
    LET present == SortIZYX(RangeOrder({b \in DOMAIN bdm : bdm[b].present}))
        deltas == [b \in DOMAIN bdm |-> bdm[b].delta]
    IN [Voxels |-> WrapVoxels(m.Voxels + SumOver(deltas, DOMAIN bdm)),
        Blocks |-> Merge(m.Blocks, present)]

\* Meta.applyChanges
applyChanges(m, bdm) ==
    LET present == SortIZYX(RangeOrder({b \in DOMAIN bdm : bdm[b].present}))
        absent == SortIZYX(RangeOrder({b \in DOMAIN bdm : ~bdm[b].present}))
        deltas == [b \in DOMAIN bdm |-> bdm[b].delta]
    IN [Voxels |-> WrapVoxels(m.Voxels + SumOver(deltas, DOMAIN bdm)),
        Blocks |-> Merge(Delete(m.Blocks, absent), present)]

\* ------------------------------------------------------- block changes
NoDelta == [l \in {} |-> 0]

\* bc.present[label] |= bit, on a flag byte that starts at 0
FlagOr(f, bit) == IF (f \div bit) % 2 = 1 THEN f ELSE f + bit

\* handleIndexBlockMutate: the blockChange of a mutated block
handleIndexBlockMutate(b, prev, data) ==
    [block |-> b,
     present |-> [l \in BlockLabels(prev) \cup BlockLabels(data) |->
                    LET f1 == IF l \in BlockLabels(prev) THEN FlagOr(0, presentOld) ELSE 0
                    IN IF l \in BlockLabels(data) THEN FlagOr(f1, presentNew) ELSE f1],
     delta |-> NoDelta]

\* handleIndexBlockIngest: the blockChange of an ingested block
handleIndexBlockIngest(b, data) ==
    [block |-> b,
     present |-> [l \in BlockLabels(data) |-> FlagOr(0, presentNew)],
     delta |-> NoDelta]

PutKey(f, k, v) == [x \in DOMAIN f \cup {k} |-> IF x = k THEN v ELSE f[x]]

AggFold_NewOnly(ldm, change) ==
    LET dom == DOMAIN ldm \cup DOMAIN change.present \cup DOMAIN change.delta
        old(l) == IF l \in DOMAIN ldm THEN ldm[l] ELSE [b \in {} |-> 0]
        diff(flag) == [delta |-> 0, present |-> (flag = 2)]
    IN [l \in dom |->
          IF l \in DOMAIN change.present /\ change.present[l] \in {1, 2, 3}
          THEN PutKey(old(l), change.block, diff(change.present[l]))
          ELSE old(l)]

\* one iteration of the receive loop of aggregateBlockChanges
AggFold(ldm, change) ==
    LET dom == DOMAIN ldm \cup DOMAIN change.present \cup DOMAIN change.delta
        old(l) == IF l \in DOMAIN ldm THEN ldm[l] ELSE [b \in {} |-> 0]
        diff(flag) == [delta |-> 0, present |-> (flag # 1)]
    IN [l \in dom |->
          IF l \in DOMAIN change.present /\ change.present[l] \in {1, 2, 3}
          THEN PutKey(old(l), change.block, diff(change.present[l]))
          ELSE old(l)]

\* ---------------------------------------------------------------- state
VARIABLES
    kv,          \* stored label block of each block coordinate
    metaKV,      \* stored (marshalled) Meta of each label, <<>> when none
    mutationID,  \* the mutation ID counter of the instance
    extents,     \* block coordinates covered by the instance's extents
    tokens,      \* server.HandlerToken: tokens available
    put,         \* the PutVoxels call holding server.SpawnGoroutineMutex
    nPuts,       \* number of PutVoxels calls admitted so far
    task,        \* the putChunk task of each block of the current PUT
    callbacks,   \* callback goroutines of buffered writes waiting to send
    lateCallback,\* some callback goroutine is to send on a channel closed meanwhile
    blockCh,     \* aggregation channel of each PUT
    chClosed,    \* whether the aggregation channel of each PUT is closed
    agg,         \* aggregateBlockChanges goroutine of each PUT
    indexCh,     \* d.indexCh: LabelChange channel of each shard
    worker,      \* indexLabels goroutine of each shard
    cache,       \* MetaCache of each shard worker
    clock,       \* time.Now() as last recorded in a cache entry
    faults,      \* number of storage / codec errors injected so far
    panicked,    \* the process died of a runtime panic
    putErr,      \* the latest PutVoxels call returned an error
    persisted,   \* history: blocks of the latest PUT whose store write succeeded
    sent,        \* history: BlockChanges sent per block of the latest PUT
    notified,    \* history: block events of the latest PUT delivered to subscribers
    applied,     \* history: Meta of each label after the LabelChanges stored so far
    reingested,  \* history: some ingest overwrote an existing block
    bw,          \* the running PutBlocks / writeBlocks call
    bwNotified,  \* history: blocks of that call whose event reached the subscribers
    bwCommitted, \* history: blocks of that call whose batch was committed
    mapping,     \* labels.LabelMap of the instance version (merges in flight)
    readRes,     \* the outcome of the latest sparse volume read
    slow,        \* the goroutines and channels of a running getLegacySlowRLEs
    calc,        \* arguments and result of a function call
    ann          \* the three indices of an annotation instance

pipeVars == <<kv, metaKV, mutationID, extents, tokens, put, nPuts, task, callbacks, lateCallback,
              blockCh, chClosed, agg, indexCh, worker, cache, clock, faults, panicked>>
histVars == <<putErr, persisted, sent, notified, applied, reingested>>
batchVars == <<bw, bwNotified, bwCommitted>>
readVars == <<mapping, readRes>>
auxVars == <<slow, calc, ann>>
vars == <<pipeVars, histVars, batchVars, readVars, auxVars>>

IdlePut == [pc |-> "idle", id |-> 0, mutate |-> FALSE, buffered |-> FALSE, todo |-> {}]
NoChange == [label |-> 0, bdm |-> [b \in {} |-> 0]]
IdleWorker == [pc |-> "idle", change |-> NoChange, meta |-> EmptyMeta]
IdleBatch == [op |-> "none", pc |-> "none", start |-> 1, span |-> 0, mutate |-> FALSE,
              readBlocks |-> 0, batch |-> {}]
NoMapping == [nil |-> TRUE, to |-> [l \in {} |-> 0]]
NoData == [nil |-> TRUE, bytes |-> <<>>]
NoRead == [op |-> "none", label |-> 0, fail |-> "none", panic |-> FALSE, hang |-> FALSE,
           err |-> FALSE, found |-> FALSE, data |-> NoData]

IdleSlow == [pc |-> "idle"]
NoCalc == [op |-> "none"]

\* element positions, the tags elements carry, the labels of the synced label
\* instance and the blocks of the annotation instance
Points == 1..MaxPosition
Tags == {"t1", "t2"}
PointLabels == {1, 2}
PointBlocks == {(p + 1) \div 2 : p \in Points}

\* an annotation instance without elements
NoAnnotations ==
    [block |-> [b \in PointBlocks |-> {}], tag |-> [t \in Tags |-> {}],
     label |-> [l \in PointLabels |-> {}], last |-> "none"]

\* MakeMetaCache
MakeMetaCache(size) == [size |-> size, avail |-> [l \in {} |-> 0], list |-> <<>>]

InitPipeline ==
    /\ kv = [b \in Blocks |-> NoBlock]
    /\ metaKV = [l \in LabelSet |-> <<>>]
    /\ mutationID = 0
    /\ extents = {}
    /\ tokens = TokenCapacity
    /\ put = IdlePut
    /\ nPuts = 0
    /\ task = [b \in Blocks |-> "none"]
    /\ callbacks = {}
    /\ lateCallback = FALSE
    /\ blockCh = [p \in Puts |-> <<>>]
    /\ chClosed = [p \in Puts |-> FALSE]
    /\ agg = [p \in Puts |-> [pc |-> "none", ldm |-> [l \in {} |-> 0]]]
    /\ indexCh = [s \in Shards |-> <<>>]
    /\ worker = [s \in Shards |-> IdleWorker]
    /\ cache = [s \in Shards |-> MakeMetaCache(100)]
    /\ clock = 0
    /\ faults = 0
    /\ panicked = FALSE
    /\ putErr = FALSE
    /\ persisted = {}
    /\ sent = [b \in Blocks |-> 0]
    /\ notified = {}
    /\ applied = [l \in LabelSet |-> EmptyMeta]
    /\ reingested = FALSE

Init ==
    /\ InitPipeline
    /\ bw = IdleBatch
    /\ bwNotified = {}
    /\ bwCommitted = {}
    /\ mapping = NoMapping
    /\ readRes = NoRead
    /\ slow = IdleSlow
    /\ calc = NoCalc
    /\ ann = NoAnnotations

Alive == ~panicked

\* ------------------------------------------------------- MetaCache
\* MetaCache.GetLabelMeta: the cached Meta, or none
CacheHit(c, label) == label \in DOMAIN c.avail

\* MetaCache.GetLabelMeta on a hit refreshes the entry's access time
CacheTouch(c, label, now) == [c EXCEPT !.avail[label].t = now]

\* sort.Sort on a cacheList: ascending by the time of last access
RECURSIVE InsertByTime(_, _)
InsertByTime(list, tm) ==
    IF list = <<>> THEN <<tm>>
    ELSE IF tm.t < list[1].t THEN <<tm>> \o list
    ELSE <<list[1]>> \o InsertByTime(Tail(list), tm)

RECURSIVE SortByTime(_)
SortByTime(list) ==
    IF list = <<>> THEN <<>> ELSE InsertByTime(SortByTime(Tail(list)), list[1])

AddLabelMeta_Inserts(c, label, meta, now) ==
    IF label \in DOMAIN c.avail
    THEN [c EXCEPT !.avail[label] = [meta |-> meta, t |-> now]]
    ELSE [c EXCEPT !.avail = PutKey(c.avail, label, [meta |-> meta, t |-> now]),
                   !.list = Append(c.list, [label |-> label, meta |-> meta, t |-> now])]

\* MetaCache.AddLabelMeta.  The receiver is a copy of the cache: writes through
\* the avail map and into existing list slots are shared with the caller's
\* cache, an append to the list is not.  No branch puts the new entry into
\* the avail map.
AddLabelMeta(c, label, meta, now) ==
    IF label \in DOMAIN c.avail
    THEN [c EXCEPT !.avail[label] = [meta |-> meta, t |-> now]]
    ELSE IF Len(c.list) = c.size
    THEN LET sorted == SortByTime(c.list)
             evicted == sorted[c.size]
         IN [c EXCEPT !.avail = [l \in DOMAIN c.avail \ {evicted.label} |-> c.avail[l]],
                      !.list = [sorted EXCEPT ![c.size] =
                                  [label |-> label, meta |-> meta, t |-> now]]]
    ELSE c

\* ------------------------------------------------------- PutVoxels
PutVoxels_CheckAfterAdmission(region, aligned, mutate, buffered) ==
    /\ Alive
    /\ put.pc = "idle"
    /\ nPuts < MaxPuts
    /\ extents' = extents \cup region
    /\ mutationID' = mutationID + 1
    /\ IF ~aligned
       THEN /\ putErr' = TRUE
            /\ UNCHANGED <<nPuts, put, agg, task, persisted, sent, notified>>
       ELSE /\ nPuts' = nPuts + 1
            /\ put' = [pc |-> "spawn", id |-> nPuts + 1, mutate |-> mutate,
                       buffered |-> buffered, todo |-> region]
            /\ agg' = [agg EXCEPT ![nPuts + 1].pc = "recv"]
            /\ task' = [b \in Blocks |-> "none"]
            /\ persisted' = {}
            /\ sent' = [b \in Blocks |-> 0]
            /\ notified' = {}
            /\ putErr' = FALSE
    /\ UNCHANGED <<kv, metaKV, tokens, callbacks, lateCallback, blockCh, chClosed, indexCh, worker,
                   cache, clock, faults, panicked, applied, reingested>>

\* PutVoxels up to the start of the loop over the blocks: the alignment
\* check, the mutex, the extents, the mutation ID and the aggregator
PutVoxels(region, aligned, mutate, buffered) ==
    /\ Alive
    /\ IF ~aligned
       THEN /\ putErr' = TRUE
            /\ UNCHANGED <<pipeVars, persisted, sent, notified, applied, reingested>>
       ELSE /\ put.pc = "idle"
            /\ nPuts < MaxPuts
            /\ nPuts' = nPuts + 1
            /\ extents' = extents \cup region
            /\ mutationID' = mutationID + 1
            /\ put' = [pc |-> "spawn", id |-> nPuts + 1, mutate |-> mutate,
                       buffered |-> buffered, todo |-> region]
            /\ agg' = [agg EXCEPT ![nPuts + 1].pc = "recv"]
            /\ task' = [b \in Blocks |-> "none"]
            /\ persisted' = {}
            /\ sent' = [b \in Blocks |-> 0]
            /\ notified' = {}
            /\ putErr' = FALSE
            /\ UNCHANGED <<kv, metaKV, tokens, callbacks, lateCallback, blockCh, chClosed, indexCh,
                           worker, cache, clock, faults, panicked, applied, reingested>>

MinOf(S) == CHOOSE x \in S : \A y \in S : x <= y

\* PutChunk: take a handler token and start the chunk task of the next block
PutChunk ==
    /\ Alive
    /\ put.pc = "spawn"
    /\ put.todo # {}
    /\ tokens > 0
    /\ LET b == MinOf(put.todo)
       IN /\ tokens' = tokens - 1
          /\ task' = [task EXCEPT ![b] = "start"]
          /\ put' = [put EXCEPT !.todo = put.todo \ {b}]
    /\ UNCHANGED <<kv, metaKV, mutationID, extents, nPuts, callbacks, lateCallback, blockCh, chClosed,
                   agg, indexCh, worker, cache, clock, faults, panicked, histVars>>

\* the block event of a PUT
EventOf(mutate) == IF mutate THEN "MutateBlockEvent" ELSE "IngestBlockEvent"

callback_IgnoreError(p, b, mutate, old, new, resperr) ==
    IF chClosed[p]
    THEN /\ panicked' = TRUE
         /\ UNCHANGED <<blockCh, sent, notified>>
    ELSE /\ blockCh' = [blockCh EXCEPT ![p] = Append(@,
                           IF mutate THEN handleIndexBlockMutate(b, old, new)
                           ELSE handleIndexBlockIngest(b, new))]
         /\ sent' = [sent EXCEPT ![b] = @ + 1]
         /\ notified' = notified \cup {<<b, EventOf(mutate)>>}
         /\ UNCHANGED panicked

\* the callback closure of putChunk; resperr is the completion error (if any)
\* read from the ready channel.  A send on a closed channel panics.
callback(p, b, mutate, old, new, resperr) ==
    IF resperr
    THEN UNCHANGED <<blockCh, sent, notified, panicked>>
    ELSE IF chClosed[p]
    THEN /\ panicked' = TRUE
         /\ UNCHANGED <<blockCh, sent, notified>>
    ELSE /\ blockCh' = [blockCh EXCEPT ![p] = Append(@,
                           IF mutate THEN handleIndexBlockMutate(b, old, new)
                           ELSE handleIndexBlockIngest(b, new))]
         /\ sent' = [sent EXCEPT ![b] = @ + 1]
         /\ notified' = notified \cup {<<b, EventOf(mutate)>>}
         /\ UNCHANGED panicked

\* getLabelBlock of the prior value of a block (no labels when none is stored)
getLabelBlock(b) == kv[b]

ChunkFail_KeepsToken(b) ==
    /\ Alive
    /\ task[b] = "start"
    /\ faults < MaxFaults
    /\ faults' = faults + 1
    /\ task' = [task EXCEPT ![b] = "done"]
    /\ UNCHANGED <<kv, metaKV, mutationID, extents, tokens, put, nPuts, callbacks, lateCallback,
                   blockCh, chClosed, agg, indexCh, worker, cache, clock, panicked, histVars>>

\* putChunk failing before or at the store write: deserialize, read of the
\* prior block, WriteBlock, compress, serialize or store.Put returned an error
ChunkFail(b) ==
    /\ Alive
    /\ task[b] = "start"
    /\ faults < MaxFaults
    /\ faults' = faults + 1
    /\ task' = [task EXCEPT ![b] = "done"]
    /\ tokens' = tokens + 1
    /\ UNCHANGED <<kv, metaKV, mutationID, extents, put, nPuts, callbacks, lateCallback, blockCh,
                   chClosed, agg, indexCh, worker, cache, clock, panicked, histVars>>

\* putChunk on a store without request buffer: store.Put succeeds, then
\* callback(nil), then the deferred return of the token and Wg.Done
ChunkPutDirect(b, c) ==
    /\ Alive
    /\ task[b] = "start"
    /\ ~put.buffered
    /\ kv' = [kv EXCEPT ![b] = c]
    /\ persisted' = persisted \cup {b}
    /\ reingested' = (reingested \/ (~put.mutate /\ kv[b] # NoBlock))
    /\ callback(put.id, b, put.mutate,
                IF put.mutate THEN getLabelBlock(b) ELSE NoBlock, c, FALSE)
    /\ task' = [task EXCEPT ![b] = "done"]
    /\ tokens' = tokens + 1
    /\ UNCHANGED <<metaKV, mutationID, extents, put, nPuts, callbacks, lateCallback, chClosed, agg,
                   indexCh, worker, cache, clock, faults, putErr, applied>>

\* putChunk on a store with request buffer: the callback goroutine is started,
\* the write is handed to PutCallback and the task returns
ChunkPutBuffered(b, c) ==
    /\ Alive
    /\ task[b] = "start"
    /\ put.buffered
    /\ callbacks' = callbacks \cup
          {[p |-> put.id, b |-> b, mutate |-> put.mutate,
            old |-> IF put.mutate THEN getLabelBlock(b) ELSE NoBlock,
            new |-> c, ready |-> "queued"]}
    /\ task' = [task EXCEPT ![b] = "done"]
    /\ tokens' = tokens + 1
    /\ UNCHANGED <<kv, lateCallback, metaKV, mutationID, extents, put, nPuts, blockCh, chClosed, agg,
                   indexCh, worker, cache, clock, faults, panicked, histVars>>

\* the request buffer performs a queued write and reports on the ready
\* channel.  On an error the callback goroutine logs it and ends.  After a
\* success the goroutine is to send the BlockChange; when the channel has been
\* closed by then, all that is left of it is the send on a closed channel.
BufferWrite(cb, ok) ==
    /\ Alive
    /\ cb \in callbacks
    /\ cb.ready = "queued"
    /\ IF ok
       THEN /\ kv' = [kv EXCEPT ![cb.b] = cb.new]
            /\ persisted' = persisted \cup {cb.b}
            /\ reingested' = (reingested \/ (~cb.mutate /\ kv[cb.b] # NoBlock))
            /\ IF chClosed[cb.p]
               THEN /\ callbacks' = callbacks \ {cb}
                    /\ lateCallback' = TRUE
               ELSE /\ callbacks' = (callbacks \ {cb}) \cup {[cb EXCEPT !.ready = "ok"]}
                    /\ UNCHANGED lateCallback
            /\ UNCHANGED <<faults, blockCh, sent, notified, panicked>>
       ELSE /\ faults < MaxFaults
            /\ faults' = faults + 1
            /\ callbacks' = callbacks \ {cb}
            /\ callback(cb.p, cb.b, cb.mutate, cb.old, cb.new, TRUE)
            /\ UNCHANGED <<kv, persisted, reingested, lateCallback>>
    /\ UNCHANGED <<metaKV, mutationID, extents, tokens, put, nPuts, task, chClosed, agg,
                   indexCh, worker, cache, clock, putErr, applied>>

\* the callback goroutine of a buffered write that succeeded while the
\* aggregation channel was open receives nil from the ready channel
CallbackRun(cb) ==
    /\ Alive
    /\ cb \in callbacks
    /\ cb.ready = "ok"
    /\ callback(cb.p, cb.b, cb.mutate, cb.old, cb.new, FALSE)
    /\ callbacks' = callbacks \ {cb}
    /\ UNCHANGED <<kv, metaKV, mutationID, extents, tokens, put, nPuts, task,
                   lateCallback, chClosed, agg, indexCh, worker, cache, clock, faults,
                   putErr, persisted, applied, reingested>>

\* a callback goroutine whose write succeeded sends on the closed channel
CallbackLate ==
    /\ Alive
    /\ lateCallback
    /\ panicked' = TRUE
    /\ UNCHANGED <<kv, metaKV, mutationID, extents, tokens, put, nPuts, task, callbacks,
                   lateCallback, blockCh, chClosed, agg, indexCh, worker, cache, clock,
                   faults, histVars>>

\* PutVoxels after the loop: wg.Wait() and close(blockCh)
PutVoxelsClose ==
    /\ Alive
    /\ put.pc = "spawn"
    /\ put.todo = {}
    /\ \A b \in Blocks : task[b] \in {"none", "done"}
    /\ chClosed' = [chClosed EXCEPT ![put.id] = TRUE]
    /\ put' = [put EXCEPT !.pc = "flush"]
    /\ LET waiting == {cb \in callbacks : cb.ready = "ok"}
       IN /\ callbacks' = callbacks \ waiting
          /\ lateCallback' = (lateCallback \/ waiting # {})
    /\ UNCHANGED <<kv, metaKV, mutationID, extents, tokens, nPuts, task, blockCh, agg,
                   indexCh, worker, cache, clock, faults, panicked, histVars>>

\* PutVoxels end: putbuffer.Flush() returns once every queued write was
\* performed; the mutex is released on return
PutVoxelsFlush ==
    /\ Alive
    /\ put.pc = "flush"
    /\ \A cb \in callbacks : cb.p = put.id => cb.ready # "queued"
    /\ put' = IdlePut
    /\ UNCHANGED <<kv, metaKV, mutationID, extents, tokens, nPuts, task, callbacks, lateCallback,
                   blockCh, chClosed, agg, indexCh, worker, cache, clock, faults,
                   panicked, histVars>>

\* ------------------------------------------------------- aggregator
\* aggregateBlockChanges: one iteration of the receive loop
AggReceive(p) ==
    /\ Alive
    /\ agg[p].pc = "recv"
    /\ blockCh[p] # <<>>
    /\ agg' = [agg EXCEPT ![p].ldm = AggFold(@, Head(blockCh[p]))]
    /\ blockCh' = [blockCh EXCEPT ![p] = Tail(@)]
    /\ UNCHANGED <<kv, metaKV, mutationID, extents, tokens, put, nPuts, task, callbacks, lateCallback,
                   chClosed, indexCh, worker, cache, clock, faults, panicked, histVars>>

AggClosed_OnEmpty(p) ==
    /\ Alive
    /\ agg[p].pc = "recv"
    /\ blockCh[p] = <<>>
    /\ agg' = [agg EXCEPT ![p].pc = "dispatch"]
    /\ UNCHANGED <<kv, metaKV, mutationID, extents, tokens, put, nPuts, task, callbacks, lateCallback,
                   blockCh, chClosed, indexCh, worker, cache, clock, faults, panicked,
                   histVars>>

\* aggregateBlockChanges: the receive loop ends on the closed, drained channel
AggClosed(p) ==
    /\ Alive
    /\ agg[p].pc = "recv"
    /\ blockCh[p] = <<>>
    /\ chClosed[p]
    /\ agg' = [agg EXCEPT ![p].pc = "dispatch"]
    /\ UNCHANGED <<kv, metaKV, mutationID, extents, tokens, put, nPuts, task, callbacks, lateCallback,
                   blockCh, chClosed, indexCh, worker, cache, clock, faults, panicked,
                   histVars>>

AggDispatch_AnyShard(p, label) ==
    /\ Alive
    /\ agg[p].pc = "dispatch"
    /\ label \in DOMAIN agg[p].ldm
    /\ \E shard \in Shards :
          /\ Len(indexCh[shard]) < IndexChCap
          /\ indexCh' = [indexCh EXCEPT ![shard] =
                           Append(@, [label |-> label, bdm |-> agg[p].ldm[label]])]
    /\ agg' = [agg EXCEPT ![p].ldm = [l \in DOMAIN @ \ {label} |-> @[l]]]
    /\ UNCHANGED <<kv, metaKV, mutationID, extents, tokens, put, nPuts, task, callbacks, lateCallback,
                   blockCh, chClosed, worker, cache, clock, faults, panicked, histVars>>

\* aggregateBlockChanges: one iteration of the loop over ldm, which sends the
\* label's change to shard label % numLabelHandlers
AggDispatch(p, label) ==
    /\ Alive
    /\ agg[p].pc = "dispatch"
    /\ label \in DOMAIN agg[p].ldm
    /\ LET shard == label % numLabelHandlers
       IN /\ Len(indexCh[shard]) < IndexChCap
          /\ indexCh' = [indexCh EXCEPT ![shard] =
                           Append(@, [label |-> label, bdm |-> agg[p].ldm[label]])]
    /\ agg' = [agg EXCEPT ![p].ldm = [l \in DOMAIN @ \ {label} |-> @[l]]]
    /\ UNCHANGED <<kv, metaKV, mutationID, extents, tokens, put, nPuts, task, callbacks, lateCallback,
                   blockCh, chClosed, worker, cache, clock, faults, panicked, histVars>>

\* ------------------------------------------------------- label workers
\* dvid.SerializeData as PutLabelMeta uses it (LZ4, no checksum): an envelope
\* that starts with the length of the payload
SerializeData(b) == <<Len(b)>> \o b

\* dvid.DeserializeData: the payload of an envelope; nothing stored gives
\* nothing, without error
DeserializeData(v) == IF Len(v) = 0 THEN <<>> ELSE Tail(v)

\* dvid.Bounds with its block bounds: unset, or blocks up to maxX along X
\* (bounds that leave some block outside)
NoBounds == [set |-> FALSE, maxX |-> MaxBlock]
BoundsSet == {NoBounds} \cup {[set |-> TRUE, maxX |-> k] : k \in Blocks \ {MaxBlock}}

\* OptionalBounds.OutsideX of a block coordinate
OutsideX(bounds, b) == bounds.set /\ b > bounds.maxX

\* IZYXSlice.FitToBounds: the blocks of the list inside the block bounds
FitToBounds(blocks, bounds) ==
    LET inside(b) == ~OutsideX(bounds, b) IN SelectSeq(blocks, inside)

\* Data.GetLabelMeta, the loop over the labels of the set taken in one order
RECURSIVE GetLabelMetaLoop(_, _, _)
GetLabelMetaLoop(order, single, acc) ==
    IF order = <<>> THEN acc
    ELSE LET val == DeserializeData(metaKV[Head(order)])
             meta == UnmarshalBinary(val)
             next == IF Len(val) = 0 THEN acc
                     ELSE IF single THEN meta
                     ELSE IF Len(meta.Blocks) > 0
                          THEN [Voxels |-> WrapVoxels(acc.Voxels + meta.Voxels),
                                Blocks |-> Merge(acc.Blocks, meta.Blocks)]
                          ELSE acc
         IN GetLabelMetaLoop(Tail(order), single, next)

\* GetLabelMeta that leaves the voxel count alone when block bounds are given
GetLabelMeta_KeepVoxels(lbls, bounds) ==
    LET m == GetLabelMetaLoop(RangeOrder(lbls), Cardinality(lbls) = 1, EmptyMeta)
    IN IF bounds.set THEN [Voxels |-> m.Voxels, Blocks |-> FitToBounds(m.Blocks, bounds)]
       ELSE m

\* Data.GetLabelMeta when no store read fails
GetLabelMeta(lbls, bounds) ==
    LET m == GetLabelMetaLoop(RangeOrder(lbls), Cardinality(lbls) = 1, EmptyMeta)
    IN IF bounds.set THEN [Voxels |-> 0, Blocks |-> FitToBounds(m.Blocks, bounds)]
       ELSE m

\* indexLabels: receive a change and get its Meta from the cache or the store
WorkerRead(s) ==
    /\ Alive
    /\ worker[s].pc = "idle"
    /\ indexCh[s] # <<>>
    /\ LET change == Head(indexCh[s])
       IN IF CacheHit(cache[s], change.label)
          THEN /\ worker' = [worker EXCEPT ![s] =
                     [pc |-> "rmw", change |-> change,
                      meta |-> cache[s].avail[change.label].meta]]
               /\ clock' = clock + 1
               /\ cache' = [cache EXCEPT ![s] = CacheTouch(@, change.label, clock + 1)]
          ELSE /\ worker' = [worker EXCEPT ![s] =
                     [pc |-> "rmw", change |-> change, meta |-> GetLabelMeta({change.label}, NoBounds)]]
               /\ UNCHANGED <<cache, clock>>
    /\ indexCh' = [indexCh EXCEPT ![s] = Tail(@)]
    /\ UNCHANGED <<kv, metaKV, mutationID, extents, tokens, put, nPuts, task, callbacks, lateCallback,
                   blockCh, chClosed, agg, faults, panicked, histVars>>

WorkerReadFail_Stops(s) ==
    /\ Alive
    /\ worker[s].pc = "idle"
    /\ indexCh[s] # <<>>
    /\ ~CacheHit(cache[s], Head(indexCh[s]).label)
    /\ faults < MaxFaults
    /\ faults' = faults + 1
    /\ indexCh' = [indexCh EXCEPT ![s] = Tail(@)]
    /\ worker' = [worker EXCEPT ![s].pc = "stopped"]
    /\ UNCHANGED <<kv, metaKV, mutationID, extents, tokens, put, nPuts, task, callbacks, lateCallback,
                   blockCh, chClosed, agg, cache, clock, panicked, histVars>>

\* indexLabels: GetLabelMeta returned an error, the change is dropped
WorkerReadFail(s) ==
    /\ Alive
    /\ worker[s].pc = "idle"
    /\ indexCh[s] # <<>>
    /\ ~CacheHit(cache[s], Head(indexCh[s]).label)
    /\ faults < MaxFaults
    /\ faults' = faults + 1
    /\ indexCh' = [indexCh EXCEPT ![s] = Tail(@)]
    /\ UNCHANGED <<kv, metaKV, mutationID, extents, tokens, put, nPuts, task, callbacks, lateCallback,
                   blockCh, chClosed, agg, worker, cache, clock, panicked, histVars>>

\* the cache after cache.AddLabelMeta at the given time
CacheAfterAdd(s, label, meta) ==
    [cache EXCEPT ![s] = AddLabelMeta(@, label, meta, clock + 1)]

\* indexLabels: applyChanges, AddLabelMeta and a successful PutLabelMeta
WorkerWrite(s) ==
    /\ Alive
    /\ worker[s].pc = "rmw"
    /\ LET label == worker[s].change.label
           meta == applyChanges(worker[s].meta, worker[s].change.bdm)
       IN /\ cache' = CacheAfterAdd(s, label, meta)
          /\ clock' = IF cache' = cache THEN clock ELSE clock + 1
          /\ metaKV' = [metaKV EXCEPT ![label] = SerializeData(MarshalBinary(meta))]
          /\ applied' = [applied EXCEPT ![label] = applyChanges(@, worker[s].change.bdm)]
    /\ worker' = [worker EXCEPT ![s] = IdleWorker]
    /\ UNCHANGED <<kv, mutationID, extents, tokens, put, nPuts, task, callbacks, lateCallback, blockCh,
                   chClosed, agg, indexCh, faults, panicked, putErr, persisted, sent,
                   notified, reingested>>

\* indexLabels: applyChanges, AddLabelMeta and a PutLabelMeta that fails
WorkerWriteFail(s) ==
    /\ Alive
    /\ worker[s].pc = "rmw"
    /\ faults < MaxFaults
    /\ faults' = faults + 1
    /\ LET label == worker[s].change.label
           meta == applyChanges(worker[s].meta, worker[s].change.bdm)
       IN /\ cache' = CacheAfterAdd(s, label, meta)
          /\ clock' = IF cache' = cache THEN clock ELSE clock + 1
    /\ worker' = [worker EXCEPT ![s] = IdleWorker]
    /\ UNCHANGED <<kv, metaKV, mutationID, extents, tokens, put, nPuts, task, callbacks, lateCallback,
                   blockCh, chClosed, agg, indexCh, panicked, histVars>>

\* ------------------------------------------------------- specification
Regions == SUBSET Blocks \ {{}}

\* what the label pipeline leaves alone
pipeFrame == <<batchVars, readVars, auxVars>>

Next ==
    \/ /\ \E region \in Regions, mutate, buffered \in BOOLEAN : PutVoxels(region, TRUE, mutate, buffered)
       /\ UNCHANGED pipeFrame
    \/ /\ \E mutate \in BOOLEAN : PutVoxels(Blocks, FALSE, mutate, FALSE)
       /\ UNCHANGED pipeFrame
    \/ /\ PutChunk
       /\ UNCHANGED pipeFrame
    \/ /\ \E b \in Blocks : ChunkFail(b)
       /\ UNCHANGED pipeFrame
    \/ /\ \E b \in Blocks, c \in Contents : ChunkPutDirect(b, c)
       /\ UNCHANGED pipeFrame
    \/ /\ \E b \in Blocks, c \in Contents : ChunkPutBuffered(b, c)
       /\ UNCHANGED pipeFrame
    \/ /\ \E cb \in callbacks, ok \in BOOLEAN : BufferWrite(cb, ok)
       /\ UNCHANGED pipeFrame
    \/ /\ \E cb \in callbacks : CallbackRun(cb)
       /\ UNCHANGED pipeFrame
    \/ /\ CallbackLate
       /\ UNCHANGED pipeFrame
    \/ /\ PutVoxelsClose
       /\ UNCHANGED pipeFrame
    \/ /\ PutVoxelsFlush
       /\ UNCHANGED pipeFrame
    \/ /\ \E p \in Puts : AggReceive(p)
       /\ UNCHANGED pipeFrame
    \/ /\ \E p \in Puts : AggClosed(p)
       /\ UNCHANGED pipeFrame
    \/ /\ \E p \in Puts, label \in LabelSet : AggDispatch(p, label)
       /\ UNCHANGED pipeFrame
    \/ /\ \E s \in Shards : WorkerRead(s)
       /\ UNCHANGED pipeFrame
    \/ /\ \E s \in Shards : WorkerReadFail(s)
       /\ UNCHANGED pipeFrame
    \/ /\ \E s \in Shards : WorkerWrite(s)
       /\ UNCHANGED pipeFrame
    \/ /\ \E s \in Shards : WorkerWriteFail(s)
       /\ UNCHANGED pipeFrame

Spec == Init /\ [][Next]_vars

\* the steps of the aggregator goroutines and of the label shard workers
AggStep ==
    /\ \E p \in Puts : AggReceive(p) \/ AggClosed(p) \/ \E l \in LabelSet : AggDispatch(p, l)
    /\ UNCHANGED pipeFrame
WorkerStep ==
    /\ \E s \in Shards : WorkerRead(s) \/ WorkerWrite(s)
    /\ UNCHANGED pipeFrame

\* the pipeline with running aggregators and label shard workers
SpecFair == Spec /\ WF_vars(AggStep) /\ WF_vars(WorkerStep)

\* the steps of a running PutVoxels call, of its chunk tasks, of the request
\* buffer and of the callback goroutines, none of which is a storage error
PutStep ==
    /\ \/ PutChunk
       \/ \E b \in Blocks, c \in Contents : ChunkPutDirect(b, c) \/ ChunkPutBuffered(b, c)
       \/ \E cb \in callbacks : BufferWrite(cb, TRUE) \/ CallbackRun(cb)
       \/ CallbackLate
       \/ PutVoxelsClose
       \/ PutVoxelsFlush
    /\ UNCHANGED pipeFrame

\* the pipeline in which every goroutine keeps running
SpecLive == SpecFair /\ WF_vars(PutStep)

\* ------------------------------------------------------- batch writes
\* what a batch write leaves alone
batchFrame == <<metaKV, extents, put, nPuts, task, callbacks, lateCallback, blockCh,
                chClosed, agg, indexCh, worker, cache, clock, panicked, histVars,
                readVars, auxVars>>

BatchIdle == bw.pc \in {"none", "ok", "error"}

\* batch.Commit: the blocks put into the batch become stored
Committed(batch) == [b \in Blocks |->
    IF \E e \in batch : e[1] = b THEN (CHOOSE e \in batch : e[1] = b)[2] ELSE kv[b]]

\* PutBlocks is called for span blocks along X from block start
PutBlocksCall(start, span, mutate) ==
    /\ Alive
    /\ BatchIdle
    /\ start + span - 1 \in Blocks
    /\ bw' = [op |-> "PutBlocks", pc |-> "iter", start |-> start, span |-> span,
              mutate |-> mutate, readBlocks |-> 0, batch |-> {}]
    /\ bwNotified' = {}
    /\ bwCommitted' = {}
    /\ UNCHANGED <<kv, tokens, mutationID, faults>>

\* PutBlocks loop body up to NotifySubscribers: the block is read and
\* serialized, its prior value loaded (mutate), it is put into the batch and
\* the subscribers are notified of its block event
PutBlocksIter(c) ==
    /\ Alive
    /\ bw.op = "PutBlocks"
    /\ bw.pc = "iter"
    /\ LET b == bw.start + bw.readBlocks
       IN /\ bw' = [bw EXCEPT !.batch = @ \cup {<<b, c>>}, !.pc = "advance"]
          /\ bwNotified' = bwNotified \cup {b}
    /\ UNCHANGED <<kv, tokens, mutationID, faults, bwCommitted>>

\* PutBlocks loop body returning an error: short or failed read, SerializeData,
\* getLabelBlock or NotifySubscribers failed; the open batch is never committed
PutBlocksIterFail ==
    /\ Alive
    /\ bw.op = "PutBlocks"
    /\ bw.pc = "iter"
    /\ faults < MaxFaults
    /\ faults' = faults + 1
    /\ bw' = [bw EXCEPT !.pc = "error", !.batch = {}]
    /\ UNCHANGED <<kv, tokens, mutationID, bwNotified, bwCommitted>>

\* whether PutBlocks commits after having read n blocks
PutBlocksCommitDue(n) == n = bw.span \/ n % BatchSize = 0

\* PutBlocks loop end: advance to the next block, commit the batch when due
PutBlocksAdvance ==
    /\ Alive
    /\ bw.op = "PutBlocks"
    /\ bw.pc = "advance"
    /\ LET n == bw.readBlocks + 1
       IN IF PutBlocksCommitDue(n)
          THEN /\ kv' = Committed(bw.batch)
               /\ bwCommitted' = bwCommitted \cup {e[1] : e \in bw.batch}
               /\ bw' = [bw EXCEPT !.readBlocks = n, !.batch = {},
                                    !.pc = IF n = bw.span THEN "ok" ELSE "iter"]
          ELSE /\ bw' = [bw EXCEPT !.readBlocks = n, !.pc = "iter"]
               /\ UNCHANGED <<kv, bwCommitted>>
    /\ UNCHANGED <<tokens, mutationID, faults, bwNotified>>

\* PutBlocks: batch.Commit fails and the error is returned
PutBlocksCommitFail ==
    /\ Alive
    /\ bw.op = "PutBlocks"
    /\ bw.pc = "advance"
    /\ PutBlocksCommitDue(bw.readBlocks + 1)
    /\ faults < MaxFaults
    /\ faults' = faults + 1
    /\ bw' = [bw EXCEPT !.readBlocks = @ + 1, !.pc = "error", !.batch = {}]
    /\ UNCHANGED <<kv, tokens, mutationID, bwNotified, bwCommitted>>

\* writeBlocks is called for the blocks 1..span: it takes a handler token and
\* its goroutine a new mutation ID
WriteBlocksCall(span) ==
    /\ Alive
    /\ BatchIdle
    /\ span \in Blocks
    /\ tokens > 0
    /\ mutationID < MaxPuts
    /\ tokens' = tokens - 1
    /\ mutationID' = mutationID + 1
    /\ bw' = [op |-> "writeBlocks", pc |-> "iter", start |-> 1, span |-> span,
              mutate |-> FALSE, readBlocks |-> 0, batch |-> {}]
    /\ bwNotified' = {}
    /\ bwCommitted' = {}
    /\ UNCHANGED <<kv, faults>>

\* writeBlocks loop body up to NotifySubscribers
WriteBlocksIter(c) ==
    /\ Alive
    /\ bw.op = "writeBlocks"
    /\ bw.pc = "iter"
    /\ LET b == bw.start + bw.readBlocks
       IN /\ bw' = [bw EXCEPT !.batch = @ \cup {<<b, c>>}, !.pc = "advance"]
          /\ bwNotified' = bwNotified \cup {b}
    /\ UNCHANGED <<kv, tokens, mutationID, faults, bwCommitted>>

\* writeBlocks goroutine returning early: Compress, SerializeData,
\* DecodeBlockTKey, NotifySubscribers or a batch.Commit failed
WriteBlocksFail ==
    /\ Alive
    /\ bw.op = "writeBlocks"
    /\ bw.pc \in {"iter", "final"}
       \/ (bw.pc = "advance" /\ bw.readBlocks % KVWriteSize = KVWriteSize - 1)
    /\ faults < MaxFaults
    /\ faults' = faults + 1
    /\ bw' = [bw EXCEPT !.pc = "error", !.batch = {}]
    /\ tokens' = tokens + 1
    /\ UNCHANGED <<kv, mutationID, bwNotified, bwCommitted>>

\* writeBlocks loop end: commit when i % KVWriteSize = KVWriteSize - 1
WriteBlocksAdvance ==
    /\ Alive
    /\ bw.op = "writeBlocks"
    /\ bw.pc = "advance"
    /\ LET i == bw.readBlocks
           next == IF i + 1 = bw.span THEN "final" ELSE "iter"
       IN IF i % KVWriteSize = KVWriteSize - 1
          THEN /\ kv' = Committed(bw.batch)
               /\ bwCommitted' = bwCommitted \cup {e[1] : e \in bw.batch}
               /\ bw' = [bw EXCEPT !.readBlocks = i + 1, !.batch = {}, !.pc = next]
          ELSE /\ bw' = [bw EXCEPT !.readBlocks = i + 1, !.pc = next]
               /\ UNCHANGED <<kv, bwCommitted>>
    /\ UNCHANGED <<tokens, mutationID, faults, bwNotified>>

\* writeBlocks after the loop: the last batch.Commit, then the token is returned
WriteBlocksFinal ==
    /\ Alive
    /\ bw.op = "writeBlocks"
    /\ bw.pc = "final"
    /\ kv' = Committed(bw.batch)
    /\ bwCommitted' = bwCommitted \cup {e[1] : e \in bw.batch}
    /\ bw' = [bw EXCEPT !.batch = {}, !.pc = "ok"]
    /\ tokens' = tokens + 1
    /\ UNCHANGED <<mutationID, faults, bwNotified>>

NextBatch ==
    \/ /\ \E start \in Blocks, span \in 1..MaxBlock, mutate \in BOOLEAN : PutBlocksCall(start, span, mutate)
       /\ UNCHANGED batchFrame
    \/ /\ \E c \in Contents : PutBlocksIter(c)
       /\ UNCHANGED batchFrame
    \/ /\ PutBlocksIterFail
       /\ UNCHANGED batchFrame
    \/ /\ PutBlocksAdvance
       /\ UNCHANGED batchFrame
    \/ /\ PutBlocksCommitFail
       /\ UNCHANGED batchFrame
    \/ /\ \E span \in 1..MaxBlock : WriteBlocksCall(span)
       /\ UNCHANGED batchFrame
    \/ /\ \E c \in Contents : WriteBlocksIter(c)
       /\ UNCHANGED batchFrame
    \/ /\ WriteBlocksFail
       /\ UNCHANGED batchFrame
    \/ /\ WriteBlocksAdvance
       /\ UNCHANGED batchFrame
    \/ /\ WriteBlocksFinal
       /\ UNCHANGED batchFrame

SpecBatch == Init /\ [][NextBatch]_vars

\* ------------------------------------------------------- sparse volume reads
\* how a read returns: nothing, an error, the bytes of a sparse volume; or it
\* panics, or never returns
RNil == [panic |-> FALSE, hang |-> FALSE, err |-> FALSE, found |-> FALSE, data |-> NoData]
RErr == [RNil EXCEPT !.err = TRUE]
RPanic == [RNil EXCEPT !.panic = TRUE]
RHang == [RNil EXCEPT !.hang = TRUE]
RData(bytes) == [RNil EXCEPT !.found = TRUE, !.data = [nil |-> FALSE, bytes |-> bytes]]

\* which store read of a call fails
Fails == {"none", "meta", "block"}

\* labels.Mapping.FinalLabel and Get: whether the label is mapped to another
FinalLabel(label) == label \in DOMAIN mapping.to

\* labels.Mapping.ConstituentLabels: the label and the labels mapped to it
ConstituentLabels(label) == {label} \cup {l \in DOMAIN mapping.to : mapping.to[l] = label}

\* Data.GetMappedLabelMeta: meta is nil for a merged label
GetMappedLabelMeta(label, bounds, fail) ==
    IF ~mapping.nil /\ FinalLabel(label)
    THEN [nil |-> TRUE, meta |-> EmptyMeta, lbls |-> {}, err |-> FALSE]
    ELSE LET lbls == IF mapping.nil THEN {label} ELSE ConstituentLabels(label)
         IN IF fail = "meta"
            THEN [nil |-> TRUE, meta |-> EmptyMeta, lbls |-> lbls, err |-> TRUE]
            ELSE [nil |-> FALSE, meta |-> GetLabelMeta(lbls, bounds), lbls |-> lbls,
                  err |-> FALSE]

\* the blocks of a Meta the RLE builders go through: those inside the bounds
Indices(meta, bounds) == FitToBounds(meta.Blocks, bounds)

\* processBlocksToRLEs with addRLEs: the runs of one stored block, of the
\* voxels that carry a non-zero label of the set
processBlocksToRLEs(b, lbls) ==
    IF \E l \in lbls \ {0} : kv[b][l] > 0 THEN 1 ELSE 0

\* labels.WriteRLEs: the runs of one block, of the voxels that carry a label
\* of the set
WriteRLEs(b, lbls) ==
    IF \E l \in lbls : kv[b][l] > 0 THEN 1 ELSE 0

\* binary.LittleEndian: a uint32 as 4 bytes
LE32(v) == <<v % 256, (v \div 256) % 256, (v \div 65536) % 256, (v \div 16777216) % 256>>

\* the sparse volume header: dvid.EncodingBinary, 3 dimensions, run dimension
\* X, a reserved byte, and two uint32 placeholders
Header == <<0, 3, 0, 0>> \o LE32(0) \o LE32(0)

\* binary.LittleEndian.PutUint32(buf[off:off+4], v)
PutUint32(buf, off, v) ==
    [i \in 1..Len(buf) |-> IF off < i /\ i <= off + 4 THEN LE32(v)[i - off] ELSE buf[i]]

\* writeRLE: a run from the point start = <<x, y, z>> of length run, as four
\* int32
writeRLE(start, run) == LE32(start[1]) \o LE32(start[2]) \o LE32(start[3]) \o LE32(run)

\* the serialized runs of one stored block: a block is one row of BlockVoxels
\* voxels, and its voxels of the label set make up one run
Serialization(b, lbls, old) ==
    LET n == SumOver(kv[b], (IF old THEN lbls \ {0} ELSE lbls) \cap LabelSet)
    IN IF n > 0 THEN writeRLE(<<b, 0, 0>>, n) ELSE <<>>

\* what labels.WriteRLEs has written to buf when it ends
RECURSIVE WrittenRLEs(_, _, _)
WrittenRLEs(indices, lbls, old) ==
    IF indices = <<>> THEN <<>>
    ELSE Serialization(Head(indices), lbls, old) \o WrittenRLEs(Tail(indices), lbls, old)

\* the runs of a block list, block by block
RECURSIVE NumRuns(_, _, _)
NumRuns(indices, lbls, old) ==
    IF indices = <<>> THEN 0
    ELSE (IF old THEN processBlocksToRLEs(Head(indices), lbls)
                 ELSE WriteRLEs(Head(indices), lbls))
         + NumRuns(Tail(indices), lbls, old)

\* Data.getLegacySlowRLEs on what GetMappedLabelMeta returned
getLegacySlowRLEs(m, bounds, fail) ==
    IF m.nil THEN RPanic
    ELSE LET indices == Indices(m.meta, bounds)
             numRuns == NumRuns(indices, m.lbls, TRUE)
             buf == Header \o WrittenRLEs(indices, m.lbls, TRUE)
         IN IF Len(indices) = 0 THEN RNil
            ELSE IF fail = "block" THEN RErr
            ELSE IF numRuns = 0 THEN RNil
            ELSE RData(PutUint32(buf, 8, numRuns))

\* Data.getLegacyRLEs on what GetMappedLabelMeta returned
getLegacyRLEs(m, bounds, fail) ==
    IF m.nil THEN RPanic
    ELSE LET indices == Indices(m.meta, bounds)
             buf == Header \o WrittenRLEs(indices, m.lbls, FALSE)
             numRuns == (Len(buf) - 12) \div 16
         IN IF Len(indices) = 0 THEN RNil
            ELSE IF fail = "block" THEN RErr
            ELSE IF numRuns = 0 THEN RNil
            ELSE RData(PutUint32(buf, 8, numRuns))

\* Data.GetLegacyRLE
GetLegacyRLE(label, bounds, old, fail) ==
    LET m == GetMappedLabelMeta(label, bounds, fail)
    IN IF m.err THEN RErr
       ELSE IF old THEN getLegacySlowRLEs(m, bounds, fail)
       ELSE getLegacyRLEs(m, bounds, fail)

\* the compression argument: a known one, an unknown one
Compressions == {"lz4", "zip"}

\* Data.WriteLegacyRLE: data is what has been written to w
WriteLegacyRLE(label, bounds, compression, old, fail) ==
    LET r == GetLegacyRLE(label, bounds, old, fail)
    IN IF r.panic \/ r.err THEN r
       ELSE IF r.data.nil THEN RNil
       ELSE IF compression \in {"", "lz4", "gzip"} THEN r
       ELSE [RErr EXCEPT !.found = TRUE]

\* Data.WriteStreamingRLE: the blocks are handed to labels.WriteRLEs over pbCh,
\* which is never closed, and then the function waits on errCh for the writer
\* to end
WriteStreamingRLE(label, bounds, fail) ==
    LET m == GetMappedLabelMeta(label, bounds, fail)
    IN IF m.err THEN RErr
       ELSE IF m.nil \/ Len(m.meta.Blocks) = 0 \/ m.lbls = {} THEN RNil
       ELSE IF Len(Indices(m.meta, bounds)) = 0 THEN RNil
       ELSE IF fail = "block" THEN RErr
       ELSE RHang

\* IZYXSlice.WriteSerializedRLEs: one run per span of contiguous blocks
WriteSerializedRLEs(blocks) ==
    Cardinality({i \in 1..Len(blocks) : i = 1 \/ blocks[i] # blocks[i - 1] + 1})

\* the first span of contiguous blocks of a sorted list: its length
RECURSIVE SpanLen(_)
SpanLen(blocks) ==
    IF Len(blocks) < 2 \/ blocks[2] # blocks[1] + 1 THEN 1
    ELSE 1 + SpanLen(Tail(blocks))

\* IZYXSlice.WriteSerializedRLEs: what it writes, one run per span
RECURSIVE SerializedRLEs(_)
SerializedRLEs(blocks) ==
    IF blocks = <<>> THEN <<>>
    ELSE LET n == SpanLen(blocks)
         IN writeRLE(<<blocks[1], 0, 0>>, n) \o SerializedRLEs(SubSeq(blocks, n + 1, Len(blocks)))

\* Data.GetSparseCoarseVol: the header and the block runs
GetSparseCoarseVol(label, bounds, fail) ==
    IF ~mapping.nil /\ FinalLabel(label) THEN RNil
    ELSE LET lbls == IF mapping.nil THEN {label} ELSE ConstituentLabels(label)
         IN IF fail = "meta" THEN RErr
            ELSE LET blocks == GetLabelMeta(lbls, bounds).Blocks
                     buf == Header \o SerializedRLEs(blocks)
                 IN RData(PutUint32(buf, 8, WriteSerializedRLEs(blocks)))

\* what Meta.UnmarshalBinary and the bounds test make of a stored value that
\* has not been through DeserializeData: an error, a block inside the bounds
\* or none
RawOutcomes == {"err", "inside", "outside"}

\* Data.FoundSparseVol
FoundSparseVol(label, bounds, fail, raw) ==
    IF ~mapping.nil /\ FinalLabel(label) THEN RNil
    ELSE LET constituents == IF mapping.nil THEN {label} ELSE ConstituentLabels(label)
             stored == {l \in constituents : Len(metaKV[l]) # 0}
         IN IF fail = "meta" THEN RErr
            ELSE IF stored = {} THEN RNil
            ELSE IF ~bounds.set THEN [RNil EXCEPT !.found = TRUE]
            ELSE IF raw = "err" THEN RErr
            ELSE IF raw = "inside" THEN [RNil EXCEPT !.found = TRUE]
            ELSE RNil

\* what a read leaves alone
readFrame == <<pipeVars, histVars, batchVars, mapping, auxVars>>

\* a read request ends with outcome r
Returns(op, label, fail, r) ==
    /\ Alive
    /\ readRes' = [op |-> op, label |-> label, fail |-> fail, panic |-> r.panic,
                   hang |-> r.hang, err |-> r.err, found |-> r.found, data |-> r.data]
    /\ UNCHANGED readFrame

ReadLegacyRLE(label, bounds, old, fail) ==
    Returns(IF old THEN "GetLegacySlowRLE" ELSE "GetLegacyRLE", label, fail,
            GetLegacyRLE(label, bounds, old, fail))

ReadWriteLegacyRLE(label, bounds, compression, old, fail) ==
    Returns("WriteLegacyRLE", label, fail,
            WriteLegacyRLE(label, bounds, compression, old, fail))

ReadStreamingRLE(label, bounds, fail) ==
    Returns("WriteStreamingRLE", label, fail, WriteStreamingRLE(label, bounds, fail))

ReadSparseCoarseVol(label, bounds, fail) ==
    Returns("GetSparseCoarseVol", label, fail, GetSparseCoarseVol(label, bounds, fail))

ReadFoundSparseVol(label, bounds, fail, raw) ==
    Returns("FoundSparseVol", label, fail, FoundSparseVol(label, bounds, fail, raw))

NextReads ==
    \/ \E label \in LabelSet, bounds \in BoundsSet, old \in BOOLEAN, fail \in Fails :
          ReadLegacyRLE(label, bounds, old, fail)
    \/ \E label \in LabelSet, bounds \in BoundsSet, compression \in Compressions,
          old \in BOOLEAN, fail \in Fails :
          ReadWriteLegacyRLE(label, bounds, compression, old, fail)
    \/ \E label \in LabelSet, bounds \in BoundsSet, fail \in Fails :
          ReadStreamingRLE(label, bounds, fail)
    \/ \E label \in LabelSet, bounds \in BoundsSet, fail \in Fails :
          ReadSparseCoarseVol(label, bounds, fail)
    \/ \E label \in LabelSet, bounds \in BoundsSet, fail \in Fails, raw \in RawOutcomes :
          ReadFoundSparseVol(label, bounds, fail, raw)

\* the label maps of a version: none, or labels merged into other labels that
\* are not merged themselves
Mappings ==
    {NoMapping} \cup
    {[nil |-> FALSE, to |-> f] :
        f \in {g \in UNION {[D -> LabelSet] : D \in SUBSET LabelSet} :
                  \A l \in DOMAIN g : g[l] \notin DOMAIN g}}

\* the Meta records a label can have, given the stored blocks: none, or a
\* sorted list of stored blocks
MetaValues(stored) ==
    {<<>>} \cup {SerializeData(MarshalBinary([Voxels |-> 0,
                                             Blocks |-> SortIZYX(RangeOrder(S))])) :
                    S \in SUBSET stored}

\* a store as block writes and label indexing leave it, and a label map
\* nothing is running on the store as drawn: no PUT, no batch write
InitIdle ==
    /\ mutationID = 0
    /\ extents = {b \in Blocks : kv[b] # NoBlock}
    /\ tokens = TokenCapacity
    /\ put = IdlePut
    /\ nPuts = 0
    /\ task = [b \in Blocks |-> "none"]
    /\ callbacks = {}
    /\ lateCallback = FALSE
    /\ blockCh = [p \in Puts |-> <<>>]
    /\ chClosed = [p \in Puts |-> FALSE]
    /\ agg = [p \in Puts |-> [pc |-> "none", ldm |-> [l \in {} |-> 0]]]
    /\ indexCh = [s \in Shards |-> <<>>]
    /\ worker = [s \in Shards |-> IdleWorker]
    /\ cache = [s \in Shards |-> MakeMetaCache(100)]
    /\ clock = 0
    /\ faults = 0
    /\ panicked = FALSE
    /\ putErr = FALSE
    /\ persisted = {}
    /\ sent = [b \in Blocks |-> 0]
    /\ notified = {}
    /\ applied = [l \in LabelSet |-> GetLabelMeta({l}, NoBounds)]
    /\ reingested = FALSE
    /\ bw = IdleBatch
    /\ bwNotified = {}
    /\ bwCommitted = {}

\* a store as block writes and label indexing leave it, and a label map
InitReads ==
    /\ kv \in [Blocks -> Contents \cup {NoBlock}]
    /\ metaKV \in [LabelSet -> MetaValues({b \in Blocks : kv[b] # NoBlock})]
    /\ mapping \in Mappings
    /\ readRes = NoRead
    /\ slow = IdleSlow
    /\ calc = NoCalc
    /\ ann = NoAnnotations
    /\ InitIdle

SpecReads == InitReads /\ [][NextReads]_vars

\* ------------------------------------------------------- addRLEs
\* d.BlockSize(): voxels along X, Y and Z
BlockSize == <<BlockX, 2, 2>>

\* the labels a voxel can carry
VoxelLabels == {0, 1, 2}

\* the label volumes of a block: one label per voxel, X fastest, then Y, then
\* Z; the volumes that hold at most two of the labels
Volumes ==
    UNION {[1..(BlockSize[1] * BlockSize[2] * BlockSize[3]) -> P] :
             P \in {Q \in SUBSET VoxelLabels : Cardinality(Q) = 2}}

\* IndexZYX.MinPoint and MaxPoint of block izyx = <<x, y, z>>
MinPoint(izyx) == [i \in 1..3 |-> izyx[i] * BlockSize[i]]
MaxPoint(izyx) == [i \in 1..3 |-> (izyx[i] + 1) * BlockSize[i] - 1]

\* addRLEs before the scan: position in data, the open run, the runs written
ScanStart == [start |-> 0, spanRun |-> 0, spanStart |-> <<0, 0, 0>>, newRuns |-> 0,
              runs |-> <<>>, buf |-> <<>>]

\* addRLEs, the body of the x loop at voxel <<x, y, z>>
ScanVoxel(data, lbls, x, y, z, st) ==
    LET label == data[st.start + 1]
        inSpan == label # 0 /\ label \in lbls
    IN IF inSpan
       THEN [st EXCEPT !.start = @ + 1,
                       !.spanRun = @ + 1,
                       !.spanStart = IF st.spanRun + 1 = 1 THEN <<x, y, z>> ELSE @]
       ELSE IF st.spanRun > 0
       THEN [st EXCEPT !.start = @ + 1,
                       !.newRuns = @ + 1,
                       !.runs = Append(@, [start |-> st.spanStart, run |-> st.spanRun]),
                       !.buf = @ \o writeRLE(st.spanStart, st.spanRun),
                       !.spanRun = 0]
       ELSE [st EXCEPT !.start = @ + 1]

EndRow_NoBreak(st) == st

\* addRLEs after the x loop: any open run is closed
EndRow(st) ==
    IF st.spanRun > 0
    THEN [st EXCEPT !.newRuns = @ + 1,
                    !.runs = Append(@, [start |-> st.spanStart, run |-> st.spanRun]),
                    !.buf = @ \o writeRLE(st.spanStart, st.spanRun),
                    !.spanRun = 0]
    ELSE st

\* addRLEs, the x loop from x to lastX
RECURSIVE ScanX(_, _, _, _, _, _, _)
ScanX(data, lbls, x, lastX, y, z, st) ==
    IF x > lastX THEN EndRow(st)
    ELSE ScanX(data, lbls, x + 1, lastX, y, z, ScanVoxel(data, lbls, x, y, z, st))

\* addRLEs, the y loop from y to the last row of the plane
RECURSIVE ScanY(_, _, _, _, _, _, _)
ScanY(data, lbls, first, last, y, z, st) ==
    IF y > last[2] THEN st
    ELSE ScanY(data, lbls, first, last, y + 1, z,
               ScanX(data, lbls, first[1], last[1], y, z, st))

\* addRLEs, the z loop from z to the last plane
RECURSIVE ScanZ(_, _, _, _, _, _)
ScanZ(data, lbls, first, last, z, st) ==
    IF z > last[3] THEN st
    ELSE ScanZ(data, lbls, first, last, z + 1,
               ScanY(data, lbls, first, last, first[2], z, st))

\* Data.addRLEs on the label volume of block izyx
addRLEs(izyx, data, lbls) ==
    IF Len(data) # BlockSize[1] * BlockSize[2] * BlockSize[3]
    THEN [err |-> TRUE, newRuns |-> 0, runs |-> <<>>, serialization |-> <<>>]
    ELSE LET st == ScanZ(data, lbls, MinPoint(izyx), MaxPoint(izyx), MinPoint(izyx)[3],
                         ScanStart)
         IN [err |-> FALSE, newRuns |-> st.newRuns, runs |-> st.runs,
             serialization |-> st.buf]

\* an empty store on which nothing runs
InitEmpty ==
    /\ ann = NoAnnotations
    /\ kv = [b \in Blocks |-> NoBlock]
    /\ metaKV = [l \in LabelSet |-> <<>>]
    /\ mapping = NoMapping
    /\ readRes = NoRead
    /\ slow = IdleSlow
    /\ InitIdle

\* what a function call leaves alone
calcFrame == <<pipeVars, histVars, batchVars, readVars, slow, ann>>

\* the label sets asked for: one label, with the background label, two labels
RLELabelSets == {{1}, {0, 1}, {1, 2}}

\* addRLEs is called on a label volume
CallAddRLEs ==
    /\ calc.op = "args"
    /\ calc' = [op |-> "addRLEs", izyx |-> calc.izyx, data |-> calc.data,
                lbls |-> calc.lbls, out |-> addRLEs(calc.izyx, calc.data, calc.lbls)]
    /\ UNCHANGED calcFrame

InitRLE ==
    /\ \E d \in Volumes, l \in RLELabelSets :
          calc = [op |-> "args", izyx |-> <<1, 0, 1>>, data |-> d, lbls |-> l]
    /\ InitEmpty

SpecRLE == InitRLE /\ [][CallAddRLEs]_vars

\* ------------------------------------------------------- GetLabelMeta
\* the Meta records a label can have with voxel counts: none, or a sorted list
\* of blocks with a count of at most BlockVoxels per listed block
CountedMetaValues ==
    {<<>>} \cup
    {SerializeData(MarshalBinary([Voxels |-> n, Blocks |-> SortIZYX(RangeOrder(S))])) :
        <<S, n>> \in {sn \in (SUBSET Blocks) \X (0..(MaxBlock * BlockVoxels)) :
                        sn[2] <= Cardinality(sn[1]) * BlockVoxels}}

\* a call of GetLabelMeta for a label set, with or without block bounds
CallGetLabelMeta ==
    /\ calc.op = "meta-args"
    /\ calc' = [op |-> "GetLabelMeta", lbls |-> calc.lbls, bounds |-> calc.bounds,
                out |-> GetLabelMeta(calc.lbls, calc.bounds)]
    /\ UNCHANGED calcFrame

\* a store with every block written and label indices with voxel counts
InitMeta ==
    /\ kv = [b \in Blocks |-> [l \in LabelSet |-> IF l = MaxLabel THEN BlockVoxels ELSE 0]]
    /\ metaKV \in [LabelSet -> CountedMetaValues]
    /\ \E lbls \in SUBSET LabelSet, bounds \in BoundsSet :
          calc = [op |-> "meta-args", lbls |-> lbls, bounds |-> bounds]
    /\ mapping = NoMapping
    /\ readRes = NoRead
    /\ slow = IdleSlow
    /\ ann = NoAnnotations
    /\ InitIdle

SpecMeta == InitMeta /\ [][CallGetLabelMeta]_vars

\* ------------------------------------------------------- storage keys
\* a uint32 as its upper and lower 16 bits
U32(hi, lo) == [hi |-> hi, lo |-> lo]

\* dvid.MaxVersionID, the largest uint32 (declared outside the sources)
MaxVersionID == U32(65535, 65535)

\* dvid.InstanceID.Bytes / dvid.VersionID.Bytes: 4 bytes, most significant first
BE32(v) == <<v.hi \div 256, v.hi % 256, v.lo \div 256, v.lo % 256>>

\* the result of a key parser: an error, a panic of the Go runtime, or an index
KeyErr == [err |-> TRUE, panic |-> FALSE, nil |-> TRUE, index |-> <<>>]
KeyPanic == [err |-> FALSE, panic |-> TRUE, nil |-> TRUE, index |-> <<>>]
KeyIndex(index) == [err |-> FALSE, panic |-> FALSE, nil |-> FALSE, index |-> index]

\* MetadataContext.ConstructKey
MetaConstructKey(index) == <<metadataKeyPrefix>> \o index

\* MetadataContext.IndexFromKey that accepts every key
MetaIndexFromKey_AnyPrefix(key) ==
    IF key = <<>> THEN KeyPanic ELSE KeyIndex(Tail(key))

\* MetadataContext.IndexFromKey
MetaIndexFromKey(key) ==
    IF key = <<>> THEN KeyPanic
    ELSE IF key[1] # metadataKeyPrefix THEN KeyErr
    ELSE KeyIndex(Tail(key))

\* DataContext.ConstructKey without the version suffix
DataConstructKey_NoVersion(instance, version, index) ==
    <<dataKeyPrefix>> \o BE32(instance) \o index

\* DataContext.ConstructKey
DataConstructKey(instance, version, index) ==
    <<dataKeyPrefix>> \o BE32(instance) \o index \o BE32(version)

\* DataContext.IndexFromKey: key[start:end]; a key too short for the slice
\* expression panics
DataIndexFromKey(key) ==
    IF key = <<>> THEN KeyPanic
    ELSE IF key[1] # dataKeyPrefix THEN KeyErr
    ELSE LET start == 1 + InstanceIDSize
             end == Len(key) - VersionIDSize
         IN IF end < start THEN KeyPanic
            ELSE KeyIndex(SubSeq(key, start + 1, end))

\* KeyToIndexZYX: the index of a data key as a block coordinate of 12 bytes
KeyToIndexZYX(k) ==
    LET r == DataIndexFromKey(k)
    IN IF r.panic \/ r.err THEN r
       ELSE IF Len(r.index) # 12 THEN KeyErr
       ELSE r

\* DataContext.MinVersionKey
MinVersionKey(instance, index) == <<dataKeyPrefix>> \o BE32(instance) \o index \o BE32(U32(0, 0))

\* DataContext.MaxVersionKey with the version suffix of MinVersionKey
MaxVersionKey_Zero(instance, index) ==
    <<dataKeyPrefix>> \o BE32(instance) \o index \o BE32(U32(0, 0))

\* DataContext.MaxVersionKey
MaxVersionKey(instance, index) ==
    <<dataKeyPrefix>> \o BE32(instance) \o index \o BE32(MaxVersionID)

\* the indices, instances and versions keys are built from, and keys of
\* neither family
KeyIndices == {<<>>, <<7>>, <<0, 255>>, <<0, 0, 0, 1, 0, 0, 0, 2, 255, 255, 255, 255>>}
InstanceIDs == {U32(0, 1), U32(1, 2)}
VersionIDs == {U32(0, 0), U32(0, 1), U32(0, 256), MaxVersionID}
RawKeys == {<<>>, <<dataKeyPrefix, 0>>, <<2>>, <<2, 0, 0, 0, 1, 7, 0, 0, 0, 1>>}
Parsers == {"metadata", "data", "zyx"}
NotParsed == [err |-> FALSE, panic |-> FALSE, nil |-> TRUE, index |-> <<"none">>]
NoRange == [set |-> FALSE]

\* a built key before any parser ran on it
BuiltKey(ctx, instance, version, index, key) ==
    [op |-> "key", ctx |-> ctx, instance |-> instance, version |-> version,
     index |-> index, key |-> key,
     parsed |-> [p \in Parsers |-> NotParsed], range |-> NoRange]

\* ctx.ConstructKey(index) of a MetadataContext or a DataContext
CallConstructKey ==
    /\ calc.op = "key-args"
    /\ calc' = BuiltKey(calc.ctx, calc.instance, calc.version, calc.index,
                        IF calc.ctx = "metadata" THEN MetaConstructKey(calc.index)
                        ELSE DataConstructKey(calc.instance, calc.version, calc.index))
    /\ UNCHANGED calcFrame

\* MetadataContext.IndexFromKey(key)
CallMetaIndexFromKey ==
    /\ calc.op = "key"
    /\ calc.parsed["metadata"] = NotParsed
    /\ calc' = [calc EXCEPT !.parsed["metadata"] = MetaIndexFromKey(calc.key)]
    /\ UNCHANGED calcFrame

\* DataContext.IndexFromKey(key)
CallDataIndexFromKey ==
    /\ calc.op = "key"
    /\ calc.parsed["data"] = NotParsed
    /\ calc' = [calc EXCEPT !.parsed["data"] = DataIndexFromKey(calc.key)]
    /\ UNCHANGED calcFrame

\* KeyToIndexZYX(key)
CallKeyToIndexZYX ==
    /\ calc.op = "key"
    /\ calc.parsed["zyx"] = NotParsed
    /\ calc' = [calc EXCEPT !.parsed["zyx"] = KeyToIndexZYX(calc.key)]
    /\ UNCHANGED calcFrame

\* ctx.MinVersionKey(index) and ctx.MaxVersionKey(index) of the DataContext
CallVersionKeys ==
    /\ calc.op = "key"
    /\ calc.ctx = "data"
    /\ ~calc.range.set
    /\ calc' = [calc EXCEPT !.range = [set |-> TRUE,
                                       min |-> MinVersionKey(calc.instance, calc.index),
                                       max |-> MaxVersionKey(calc.instance, calc.index)]]
    /\ UNCHANGED calcFrame

NextKeys ==
    \/ CallConstructKey
    \/ CallMetaIndexFromKey
    \/ CallDataIndexFromKey
    \/ CallKeyToIndexZYX
    \/ CallVersionKeys

\* a context and an index to build a key from, or a key of neither family
InitKeys ==
    /\ \/ \E i \in KeyIndices :
             calc = [op |-> "key-args", ctx |-> "metadata", instance |-> U32(0, 0),
                     version |-> U32(0, 0), index |-> i]
       \/ \E d \in InstanceIDs, v \in VersionIDs, i \in KeyIndices :
             calc = [op |-> "key-args", ctx |-> "data", instance |-> d,
                     version |-> v, index |-> i]
       \/ \E k \in RawKeys : calc = BuiltKey("raw", U32(0, 0), U32(0, 0), <<>>, k)
    /\ InitEmpty

SpecKeys == InitKeys /\ [][NextKeys]_vars

\* ------------------------------------------------------- version resolver
\* the versions of a repository; version 1 is the root
Versions == 1..MaxVersion

\* version DAGs as the iterator sees them: the one parent of each version
\* (0 for the root), every parent older than its child
DAGs == {p \in [Versions -> 0..MaxVersion] : \A v \in Versions : (p[v] = 0) = (v = 1) /\ p[v] < v}

\* the versioned copies of one logical record: per version a value, or 0
\* where no copy is stored
CopyValues == {1, 2}
Candidates == [Versions -> {0} \cup CopyValues]

\* VersionedKeyValue: get the iterator of the context's version
VersionedKeyValueCall ==
    /\ calc.op \in {"resolve-args", "resolved"}
    /\ calc.calls < 2
    /\ calc' = [calc EXCEPT !.op = "resolving", !.it = calc.target,
                            !.calls = calc.calls + 1, !.first = calc.result]
    /\ UNCHANGED calcFrame

\* VersionedKeyValue returning the newest copy, ancestor or not
VersionedKeyValueStep_Newest ==
    /\ calc.op = "resolving"
    /\ calc.it # 0
    /\ LET newest == {v \in Versions : calc.copies[v] # 0 /\
                        \A w \in Versions : calc.copies[w] # 0 => w <= v}
       IN calc' = [calc EXCEPT !.op = "resolved",
                     !.result = IF newest = {} THEN [nil |-> TRUE]
                                ELSE [nil |-> FALSE,
                                      version |-> CHOOSE v \in newest : TRUE,
                                      value |-> calc.copies[CHOOSE v \in newest : TRUE]]]
    /\ UNCHANGED calcFrame

\* VersionedKeyValue: one step of the walk; the copy of the iterator's version
\* is returned if there is one, else the iterator moves to the parent
VersionedKeyValueStep ==
    /\ calc.op = "resolving"
    /\ calc.it # 0
    /\ IF calc.copies[calc.it] # 0
       THEN calc' = [calc EXCEPT !.op = "resolved",
                       !.result = [nil |-> FALSE, version |-> calc.it,
                                   value |-> calc.copies[calc.it]]]
       ELSE calc' = [calc EXCEPT !.it = calc.parent[calc.it]]
    /\ UNCHANGED calcFrame

\* VersionedKeyValue: the iterator is past the root, nil is returned
VersionedKeyValueEnd ==
    /\ calc.op = "resolving"
    /\ calc.it = 0
    /\ calc' = [calc EXCEPT !.op = "resolved", !.result = [nil |-> TRUE]]
    /\ UNCHANGED calcFrame

NextResolve ==
    \/ VersionedKeyValueCall
    \/ VersionedKeyValueStep
    \/ VersionedKeyValueEnd

\* a version DAG, the copies of a record and the version of the context
InitResolve ==
    /\ \E p \in DAGs, c \in Candidates, t \in Versions :
          calc = [op |-> "resolve-args", parent |-> p, copies |-> c, target |-> t,
                  it |-> 0, calls |-> 0, result |-> [nil |-> TRUE],
                  first |-> [nil |-> TRUE]]
    /\ InitEmpty

SpecResolve == InitResolve /\ [][NextResolve]_vars

\* ------------------------------------------------------- Meta codec
\* a uint64 is held as four 16-bit limbs, least significant first
\* binary.LittleEndian.PutUint64 with the most significant byte first
PutUint64_BigEndian(v) ==
    <<v[4] \div 256, v[4] % 256, v[3] \div 256, v[3] % 256,
      v[2] \div 256, v[2] % 256, v[1] \div 256, v[1] % 256>>

\* binary.LittleEndian.PutUint64: the 8 bytes of a uint64
PutUint64(v) ==
    <<v[1] % 256, v[1] \div 256, v[2] % 256, v[2] \div 256,
      v[3] % 256, v[3] \div 256, v[4] % 256, v[4] \div 256>>

\* binary.LittleEndian.Uint64: the uint64 of 8 bytes
Uint64(b) ==
    <<b[1] + 256 * b[2], b[3] + 256 * b[4], b[5] + 256 * b[6], b[7] + 256 * b[8]>>

\* copy(buf[off:off+12], string(izyx)) into the zeroed buffer: at most 12
\* bytes of the entry, the rest of the 12 stays 0
Copy12(izyx) == [i \in 1..12 |-> IF i <= Len(izyx) THEN izyx[i] ELSE 0]

\* Meta.MarshalBinary at byte level
RECURSIVE MarshalBlocks(_)
MarshalBlocks(blocks) ==
    IF blocks = <<>> THEN <<>> ELSE Copy12(Head(blocks)) \o MarshalBlocks(Tail(blocks))
MetaMarshalBinary(m) == PutUint64(m.Voxels) \o MarshalBlocks(m.Blocks)

\* dvid.IZYXSlice.UnmarshalBinary: the 12-byte entries of the input, an error
\* when its length is not a multiple of 12
RECURSIVE IZYXSliceEntries(_)
IZYXSliceEntries(b) ==
    IF Len(b) < 12 THEN <<>>
    ELSE <<SubSeq(b, 1, 12)>> \o IZYXSliceEntries(SubSeq(b, 13, Len(b)))
IZYXSliceUnmarshalBinary(b) ==
    IF Len(b) % 12 # 0 THEN [err |-> TRUE] ELSE [err |-> FALSE, blocks |-> IZYXSliceEntries(b)]

\* Meta.UnmarshalBinary at byte level
MetaUnmarshalBinary(b) ==
    IF Len(b) < 8 THEN [err |-> TRUE]
    ELSE LET blocks == IZYXSliceUnmarshalBinary(SubSeq(b, 9, Len(b)))
         IN IF blocks.err THEN [err |-> TRUE]
            ELSE [err |-> FALSE,
                  meta |-> [Voxels |-> Uint64(SubSeq(b, 1, 8)), Blocks |-> blocks.blocks]]

\* the Metas encoded: voxel counts across the 8 bytes, up to two block
\* entries, 12-byte IZYX strings and one entry that is too short
CodecMetas ==
    LET counts == {<<0, 0, 0, 0>>, <<1, 0, 0, 0>>, <<258, 0, 0, 0>>, <<0, 0, 0, 1>>,
                   <<65535, 65535, 65535, 65535>>}
        entries == {<<0, 0, 0, 1, 0, 0, 0, 2, 0, 0, 0, 3>>,
                    <<255, 255, 255, 255, 0, 0, 1, 0, 127, 0, 0, 9>>,
                    <<0, 0, 1>>}
        lists == {<<>>} \cup {<<e>> : e \in entries} \cup {<<e, f>> : e, f \in entries}
    IN {[Voxels |-> n, Blocks |-> l] : n \in counts, l \in lists}

\* byte strings that are no encoding of a Meta
CodecRawBytes == {<<>>, <<1>>, <<1, 0, 0, 0, 0, 0, 0>>, <<1, 0, 0, 0, 0, 0, 0, 0, 5>>}

\* m.MarshalBinary()
CallMarshalBinary ==
    /\ calc.op = "marshal-args"
    /\ calc' = [op |-> "marshalled", src |-> "meta", m |-> calc.m,
                bytes |-> MetaMarshalBinary(calc.m)]
    /\ UNCHANGED calcFrame

\* m.UnmarshalBinary(b)
CallUnmarshalBinary ==
    /\ calc.op = "marshalled"
    /\ calc' = [op |-> "unmarshalled", src |-> calc.src, m |-> calc.m,
                bytes |-> calc.bytes, out |-> MetaUnmarshalBinary(calc.bytes)]
    /\ UNCHANGED calcFrame

NextCodec ==
    \/ CallMarshalBinary
    \/ CallUnmarshalBinary

\* a Meta to encode, or bytes to decode
InitCodec ==
    /\ \/ \E m \in CodecMetas : calc = [op |-> "marshal-args", m |-> m]
       \/ \E b \in CodecRawBytes :
             calc = [op |-> "marshalled", src |-> "raw", m |-> EmptyMeta, bytes |-> b]
    /\ InitEmpty

SpecCodec == InitCodec /\ [][NextCodec]_vars

\* ------------------------------------------------------- annotation elements
\* the block of a position and the label the synced label instance has there
BlockOfPoint(p) == (p + 1) \div 2
LabelOfPoint(p) == 1 + (p % 2)

\* the elements that can be stored: a position, relationships to other
\* positions and tags
Elements ==
    {[pos |-> p, rels |-> r, tags |-> t] :
        p \in Points, r \in SUBSET Points, t \in SUBSET Tags} \
    {[pos |-> p, rels |-> r \cup {p}, tags |-> t] :
        p \in Points, r \in SUBSET Points, t \in SUBSET Tags}

\* the elements of the primary (by block) index
Stored == UNION {ann.block[b] : b \in PointBlocks}

\* a bucket with the element at a position replaced by the given elements
Replace(bucket, pos, elems) == {x \in bucket : x.pos # pos} \cup elems

\* an element with its relationships to position old pointing to new
Retarget(x, old, new) ==
    [x EXCEPT !.rels = IF old \in x.rels THEN (x.rels \ {old}) \cup {new} ELSE x.rels]

\* an element without its relationships to a position
Strip(x, pos) == [x EXCEPT !.rels = x.rels \ {pos}]

annFrame == <<pipeVars, histVars, batchVars, readVars, slow, calc>>

\* put_elements of one element: merged into its block bucket by position, its
\* tag and label buckets recomputed
PutElements(e) ==
    /\ ann' = [block |-> [b \in PointBlocks |->
                   IF b = BlockOfPoint(e.pos) THEN Replace(ann.block[b], e.pos, {e})
                   ELSE ann.block[b]],
               tag |-> [t \in Tags |->
                   Replace(ann.tag[t], e.pos, IF t \in e.tags THEN {e} ELSE {})],
               label |-> [l \in PointLabels |->
                   IF l = LabelOfPoint(e.pos) THEN Replace(ann.label[l], e.pos, {e})
                   ELSE ann.label[l]],
               last |-> "put"]
    /\ UNCHANGED annFrame

\* the buckets of an index after a move: the element leaves its bucket and
\* enters the bucket of its new position, relationships to the old position are
\* rewritten in every element of the buckets named by touched
Moved(index, keys, home, old, new, touched) ==
    LET e == CHOOSE x \in Stored : x.pos = old
        moved == [e EXCEPT !.pos = new]
    IN [k \in keys |->
          LET rest == {x \in index[k] : x.pos # old}
              kept == IF k \in touched THEN {Retarget(x, old, new) : x \in rest} ELSE rest
          IN IF home[k] THEN kept \cup {moved} ELSE kept]

\* move that relocates the element and rewrites no relationship
Move_NoRetarget(old, new) ==
    /\ \E x \in Stored : x.pos = old
    /\ \A x \in Stored : x.pos # new
    /\ LET e == CHOOSE x \in Stored : x.pos = old
       IN ann' = [block |-> Moved(ann.block, PointBlocks,
                                  [b \in PointBlocks |-> b = BlockOfPoint(new)],
                                  old, new, {}),
                  tag |-> Moved(ann.tag, Tags, [t \in Tags |-> t \in e.tags],
                                old, new, {}),
                  label |-> Moved(ann.label, PointLabels,
                                  [l \in PointLabels |-> l = LabelOfPoint(new)],
                                  old, new, {}),
                  last |-> "move"]
    /\ UNCHANGED annFrame

\* move that rewrites relationships only in the tag buckets of the moved
\* element's own tags
Move_OwnTagsOnly(old, new) ==
    /\ \E x \in Stored : x.pos = old
    /\ \A x \in Stored : x.pos # new
    /\ LET e == CHOOSE x \in Stored : x.pos = old
       IN ann' = [block |-> Moved(ann.block, PointBlocks,
                                  [b \in PointBlocks |-> b = BlockOfPoint(new)],
                                  old, new, PointBlocks),
                  tag |-> Moved(ann.tag, Tags, [t \in Tags |-> t \in e.tags],
                                old, new, e.tags),
                  label |-> Moved(ann.label, PointLabels,
                                  [l \in PointLabels |-> l = LabelOfPoint(new)],
                                  old, new, PointLabels),
                  last |-> "move"]
    /\ UNCHANGED annFrame

\* move(old, new) of a stored element to a free position: the element is
\* relocated in the three indices and the relationships of all other
\* elements to the old position are rewritten
Move(old, new) ==
    /\ \E x \in Stored : x.pos = old
    /\ \A x \in Stored : x.pos # new
    /\ LET e == CHOOSE x \in Stored : x.pos = old
       IN ann' = [block |-> Moved(ann.block, PointBlocks,
                                  [b \in PointBlocks |-> b = BlockOfPoint(new)],
                                  old, new, PointBlocks),
                  tag |-> Moved(ann.tag, Tags, [t \in Tags |-> t \in e.tags],
                                old, new, Tags),
                  label |-> Moved(ann.label, PointLabels,
                                  [l \in PointLabels |-> l = LabelOfPoint(new)],
                                  old, new, PointLabels),
                  last |-> "move"]
    /\ UNCHANGED annFrame

\* delete that leaves the relationships of the other elements alone
DeleteElement_NoStrip(pos) ==
    /\ \E x \in Stored : x.pos = pos
    /\ LET without(bucket) == {y \in bucket : y.pos # pos}
       IN ann' = [block |-> [b \in PointBlocks |-> without(ann.block[b])],
                  tag |-> [t \in Tags |-> without(ann.tag[t])],
                  label |-> [l \in PointLabels |-> without(ann.label[l])],
                  last |-> "delete"]
    /\ UNCHANGED annFrame

\* delete(pos): the element is removed from the three indices and the
\* relationships to its position are stripped from all other elements
DeleteElement(pos) ==
    /\ \E x \in Stored : x.pos = pos
    /\ LET without(bucket) == {Strip(x, pos) : x \in {y \in bucket : y.pos # pos}}
       IN ann' = [block |-> [b \in PointBlocks |-> without(ann.block[b])],
                  tag |-> [t \in Tags |-> without(ann.tag[t])],
                  label |-> [l \in PointLabels |-> without(ann.label[l])],
                  last |-> "delete"]
    /\ UNCHANGED annFrame

NextAnnotation ==
    \/ \E e \in Elements : PutElements(e)
    \/ \E old, new \in Points : Move(old, new)
    \/ \E pos \in Points : DeleteElement(pos)

\* a new annotation instance
InitAnnotation ==
    /\ calc = NoCalc
    /\ InitEmpty

SpecAnnotation == InitAnnotation /\ [][NextAnnotation]_vars

\* ------------------------------------------------------- get_elements
\* the elements of a bucket as a list, by position
RECURSIVE BucketList(_)
BucketList(bucket) ==
    IF bucket = {} THEN <<>>
    ELSE LET first == CHOOSE x \in bucket : \A y \in bucket : x.pos <= y.pos
         IN <<first>> \o BucketList(bucket \ {first})

\* get_elements that returns the whole bucket of every block it visits
RECURSIVE GetElements_WholeBuckets(_, _, _)
GetElements_WholeBuckets(b, lo, hi) ==
    IF b > BlockOfPoint(hi) THEN <<>>
    ELSE BucketList(ann.block[b]) \o GetElements_WholeBuckets(b + 1, lo, hi)

\* get_elements of the box lo..hi: the buckets of the blocks from b on that
\* intersect the box, each filtered by the exact position bounds
RECURSIVE GetElements(_, _, _)
GetElements(b, lo, hi) ==
    IF b > BlockOfPoint(hi) THEN <<>>
    ELSE LET inside(x) == lo <= x.pos /\ x.pos <= hi
         IN SelectSeq(BucketList(ann.block[b]), inside) \o GetElements(b + 1, lo, hi)

\* GET elements/<size>/<offset>
CallGetElements ==
    /\ calc.op = "box"
    /\ calc' = [op |-> "get_elements", lo |-> calc.lo, hi |-> calc.hi,
                out |-> GetElements(BlockOfPoint(calc.lo), calc.lo, calc.hi)]
    /\ UNCHANGED calcFrame

\* an annotation instance after some puts, and a bounding box; an element has
\* relationships to all other positions or none
InitElements ==
    /\ \E at \in SUBSET Points, linked \in SUBSET Points, tags \in [Points -> SUBSET Tags],
          lo \in Points, hi \in Points :
          /\ lo <= hi
          /\ linked \subseteq at
          /\ \A p \in Points \ at : tags[p] = {}
          /\ LET stored == {[pos |-> p, tags |-> tags[p],
                             rels |-> IF p \in linked THEN Points \ {p} ELSE {}] : p \in at}
             IN ann = [block |-> [b \in PointBlocks |-> {x \in stored : BlockOfPoint(x.pos) = b}],
                    tag |-> [t \in Tags |-> {x \in stored : t \in x.tags}],
                    label |-> [l \in PointLabels |-> {x \in stored : LabelOfPoint(x.pos) = l}],
                    last |-> "put"]
          /\ calc = [op |-> "box", lo |-> lo, hi |-> hi]
    /\ kv = [b \in Blocks |-> NoBlock]
    /\ metaKV = [l \in LabelSet |-> <<>>]
    /\ mapping = NoMapping
    /\ readRes = NoRead
    /\ slow = IdleSlow
    /\ InitIdle

SpecElements == InitElements /\ [][CallGetElements]_vars

\* ------------------------------------------------------- getLegacySlowRLEs
\* the goroutines of getLegacySlowRLEs: the caller, blockDecoders decoders
\* (processBlocksToRLEs) fed over sendCh, one collector fed over getCh

\* how the stored payload of a block can be corrupt: its envelope does not
\* deserialize, the block does not unmarshal, it does not expand into a label
\* volume, or the volume has the wrong size
Kinds == {"none", "envelope", "unmarshal", "volume", "size"}

Decoders == 0..(blockDecoders - 1)

\* IZYXString.Hash(n): the decoder of a block
Hash(b, n) == b % n

\* what the frame of these steps leaves alone
slowFrame == <<pipeVars, histVars, batchVars, readVars, calc, ann>>

SlowIdle == slow.pc \in {"idle", "done"}

\* getLegacySlowRLEs is called through GetLegacyRLE: header, block indices
\* within bounds, then the decoders and the collector are launched
SlowCall(label, bounds) ==
    /\ SlowIdle
    /\ LET m == GetMappedLabelMeta(label, bounds, "none")
           indices == Indices(m.meta, bounds)
           ended(r) == [pc |-> "done", corrupt |-> slow.corrupt, res |-> r]
       IN slow' = IF m.nil THEN ended(RPanic)
                  ELSE IF Len(indices) = 0 THEN ended(RNil)
                  ELSE [pc |-> "send", corrupt |-> slow.corrupt, lbls |-> m.lbls,
                        todo |-> indices, totBlocks |-> Len(indices),
                        sendCh |-> [n \in Decoders |-> <<>>],
                        running |-> [n \in Decoders |-> TRUE],
                        getCh |-> <<>>, numBlocks |-> 0, numRuns |-> 0,
                        buf |-> Header, collected |-> FALSE, res |-> RNil]
    /\ UNCHANGED slowFrame

\* dispatch loop: the block is read from the store and sent to its decoder
SlowDispatch ==
    /\ slow.pc = "send"
    /\ LET b == Head(slow.todo)
           n == Hash(b, blockDecoders)
       IN /\ Len(slow.sendCh[n]) < sendChCap
          /\ slow' = [slow EXCEPT !.sendCh[n] = Append(@, b),
                                  !.todo = Tail(@),
                                  !.pc = IF Tail(slow.todo) = <<>> THEN "wait" ELSE "send"]
    /\ UNCHANGED slowFrame

\* dispatch loop: store.Get fails and the error is returned
SlowDispatchFail ==
    /\ slow.pc = "send"
    /\ slow' = [pc |-> "done", corrupt |-> slow.corrupt, res |-> RErr]
    /\ UNCHANGED slowFrame

\* processBlocksToRLEs, decoder n, one block: a result goes to the collector,
\* except when MakeLabelVolume fails, where the goroutine returns. A block
\* that did not unmarshal is expanded all the same (volumeOk: whether
\* MakeLabelVolume accepts it; it holds no label then)
Decode(n, volumeOk) ==
    /\ slow.pc \in {"send", "wait"}
    /\ slow.running[n]
    /\ slow.sendCh[n] # <<>>
    /\ LET b == Head(slow.sendCh[n])
           kind == slow.corrupt[b]
           returns == kind = "volume" \/ (kind = "unmarshal" /\ ~volumeOk)
           result == IF kind = "none"
                     THEN [runs |-> processBlocksToRLEs(b, slow.lbls),
                           serialization |-> Serialization(b, slow.lbls, TRUE)]
                     ELSE [runs |-> 0, serialization |-> <<>>]
       IN IF returns
          THEN slow' = [slow EXCEPT !.sendCh[n] = Tail(@), !.running[n] = FALSE]
          ELSE /\ Len(slow.getCh) < getChCap
               /\ slow' = [slow EXCEPT !.sendCh[n] = Tail(@),
                                       !.getCh = Append(@, result)]
    /\ UNCHANGED slowFrame

\* the collector goroutine takes one result
Collect ==
    /\ slow.pc \in {"send", "wait"}
    /\ ~slow.collected
    /\ slow.getCh # <<>>
    /\ slow' = [slow EXCEPT !.getCh = Tail(@),
                            !.numBlocks = @ + 1,
                            !.buf = @ \o Head(slow.getCh).serialization,
                            !.numRuns = @ + Head(slow.getCh).runs,
                            !.collected = (slow.numBlocks + 1 = slow.totBlocks)]
    /\ UNCHANGED slowFrame

SlowReturn_NoBackfill ==
    /\ slow.pc = "wait"
    /\ slow.collected
    /\ slow' = [pc |-> "done", corrupt |-> slow.corrupt,
                res |-> IF slow.numRuns = 0 THEN RNil ELSE RData(slow.buf)]
    /\ UNCHANGED slowFrame

\* wg.Wait returns: the channels are closed, the number of runs is put into
\* the header and the buffer is returned
SlowReturn ==
    /\ slow.pc = "wait"
    /\ slow.collected
    /\ slow' = [pc |-> "done", corrupt |-> slow.corrupt,
                res |-> IF slow.numRuns = 0 THEN RNil
                        ELSE RData(PutUint32(slow.buf, 8, slow.numRuns))]
    /\ UNCHANGED slowFrame

\* getLegacyRLEs is called through GetLegacyRLE (its blocks are not corrupt)
FastCall(label, bounds) ==
    /\ SlowIdle
    /\ \A b \in Blocks : slow.corrupt[b] = "none"
    /\ slow' = [pc |-> "done", corrupt |-> slow.corrupt,
                res |-> GetLegacyRLE(label, bounds, FALSE, "none")]
    /\ UNCHANGED slowFrame

\* GetSparseCoarseVol is called
CoarseCall(label, bounds) ==
    /\ SlowIdle
    /\ slow' = [pc |-> "done", corrupt |-> slow.corrupt,
                res |-> GetSparseCoarseVol(label, bounds, "none")]
    /\ UNCHANGED slowFrame

NextSlow ==
    \/ \E label \in LabelSet, bounds \in BoundsSet : SlowCall(label, bounds)
    \/ SlowDispatch
    \/ SlowDispatchFail
    \/ \E n \in Decoders, volumeOk \in BOOLEAN : Decode(n, volumeOk)
    \/ Collect
    \/ SlowReturn
    \/ \E label \in LabelSet, bounds \in BoundsSet : FastCall(label, bounds)
    \/ \E label \in LabelSet, bounds \in BoundsSet : CoarseCall(label, bounds)

\* a store whose blocks may be corrupt, and a label map
InitSlow ==
    /\ kv \in [Blocks -> Contents]
    /\ metaKV \in [LabelSet -> MetaValues(Blocks)]
    /\ mapping \in Mappings
    /\ readRes = NoRead
    /\ slow \in {[pc |-> "idle", corrupt |-> c] : c \in [Blocks -> Kinds]}
    /\ calc = NoCalc
    /\ ann = NoAnnotations
    /\ InitIdle

SpecSlow == InitSlow /\ [][NextSlow]_vars

TypeOK ==
    /\ tokens \in 0..TokenCapacity
    /\ faults \in 0..MaxFaults
    /\ \A b \in Blocks : kv[b] \in Contents \cup {NoBlock}

\* ------------------------------------------------------- label shard workers
\* the block diffs of one label as aggregateBlockChanges builds them
BlockDiffs ==
    {[b \in {blk} |-> [delta |-> 0, present |-> pr]] : blk \in Blocks, pr \in BOOLEAN}

\* the label diff maps of a PUT at the end of its receive loop
LabelDiffMaps ==
    UNION {[ls -> BlockDiffs] : ls \in SUBSET LabelSet}

\* the LabelChanges a shard's channel may hold
PendingChanges(s) ==
    {<<>>} \cup {<<[label |-> l, bdm |-> bdm]>> :
                    l \in {x \in LabelSet : x % numLabelHandlers = s}, bdm \in BlockDiffs}

\* the aggregator of the first PUT sends its LabelChanges to the shards
DispatchStep ==
    /\ \E p \in Puts, l \in LabelSet : AggDispatch(p, l)
    /\ UNCHANGED pipeFrame

NextWorkers ==
    \/ DispatchStep
    \/ /\ \E s \in Shards : WorkerRead(s)
       /\ UNCHANGED pipeFrame
    \/ /\ \E s \in Shards : WorkerReadFail(s)
       /\ UNCHANGED pipeFrame
    \/ /\ \E s \in Shards : WorkerWrite(s)
       /\ UNCHANGED pipeFrame
    \/ /\ \E s \in Shards : WorkerWriteFail(s)
       /\ UNCHANGED pipeFrame

\* a PUT has returned and its aggregator has left the receive loop while the
\* shards still hold LabelChanges of an earlier PUT; the store holds the Metas
\* of earlier PUTs
InitWorkers ==
    /\ kv = [b \in Blocks |-> NoBlock]
    /\ metaKV \in [LabelSet -> MetaValues({1})]
    /\ mutationID = 1
    /\ extents = Blocks
    /\ tokens = TokenCapacity
    /\ put = IdlePut
    /\ nPuts = 1
    /\ task = [b \in Blocks |-> "none"]
    /\ callbacks = {}
    /\ lateCallback = FALSE
    /\ blockCh = [p \in Puts |-> <<>>]
    /\ chClosed = [p \in Puts |-> p = 1]
    /\ \E ldm \in LabelDiffMaps :
          agg = [p \in Puts |-> IF p = 1 THEN [pc |-> "dispatch", ldm |-> ldm]
                                ELSE [pc |-> "none", ldm |-> [l \in {} |-> 0]]]
    /\ indexCh \in [Shards -> UNION {PendingChanges(s) : s \in Shards}]
    /\ \A s \in Shards : indexCh[s] \in PendingChanges(s)
    /\ worker = [s \in Shards |-> IdleWorker]
    /\ cache = [s \in Shards |-> MakeMetaCache(100)]
    /\ clock = 0
    /\ faults = 0
    /\ panicked = FALSE
    /\ putErr = FALSE
    /\ persisted = {}
    /\ sent = [b \in Blocks |-> 0]
    /\ notified = {}
    /\ applied = [l \in LabelSet |-> GetLabelMeta({l}, NoBounds)]
    /\ reingested = FALSE
    /\ bw = IdleBatch
    /\ bwNotified = {}
    /\ bwCommitted = {}
    /\ mapping = NoMapping
    /\ readRes = NoRead
    /\ slow = IdleSlow
    /\ calc = NoCalc
    /\ ann = NoAnnotations

\* the aggregator and the shard workers are goroutines that keep running
SpecWorkers ==
    InitWorkers /\ [][NextWorkers]_vars /\ WF_vars(DispatchStep) /\ WF_vars(WorkerStep)

\* ------------------------------------------------------- block flags
\* the callback of putChunk analyses one written block (handleIndexBlockMutate
\* with the prior block, handleIndexBlockIngest without) and the aggregator
\* folds the BlockChange into the label diff map it has built so far
CallHandleIndexBlock ==
    /\ calc.op = "flags-args"
    /\ LET bc == IF calc.mutate THEN handleIndexBlockMutate(calc.block, calc.prev, calc.data)
                 ELSE handleIndexBlockIngest(calc.block, calc.data)
       IN calc' = [op |-> "flags", block |-> calc.block, prev |-> calc.prev,
                   data |-> calc.data, mutate |-> calc.mutate, ldm |-> calc.ldm,
                   bc |-> bc, out |-> AggFold(calc.ldm, bc)]
    /\ UNCHANGED calcFrame

InitFlags ==
    /\ kv = [b \in Blocks |-> NoBlock]
    /\ metaKV = [l \in LabelSet |-> <<>>]
    /\ \E b \in Blocks, prev \in Contents \cup {NoBlock}, data \in Contents,
          mutate \in BOOLEAN, ldm \in LabelDiffMaps :
          calc = [op |-> "flags-args", block |-> b, prev |-> prev, data |-> data,
                  mutate |-> mutate, ldm |-> ldm]
    /\ mapping = NoMapping
    /\ readRes = NoRead
    /\ slow = IdleSlow
    /\ ann = NoAnnotations
    /\ InitIdle

SpecFlags == InitFlags /\ [][CallHandleIndexBlock]_vars

\* ------------------------------------------------------- applyChanges
\* the Metas a label worker holds: a sorted block list and a voxel count
WorkerMetas ==
    {[Voxels |-> n, Blocks |-> SortIZYX(RangeOrder(S))] :
        <<S, n>> \in {sn \in (SUBSET Blocks) \X (0..(MaxBlock * BlockVoxels)) :
                        sn[2] <= Cardinality(sn[1]) * BlockVoxels}}

\* the block diff maps of a LabelChange: some blocks, each present or absent
BlockDiffMaps ==
    UNION {[bs -> {[delta |-> 0, present |-> pr] : pr \in BOOLEAN}] : bs \in SUBSET Blocks}

\* a label worker applies the block diffs of a LabelChange to a Meta
CallApplyChanges ==
    /\ calc.op = "apply-args"
    /\ calc' = [op |-> "applyChanges", meta |-> calc.meta, bdm |-> calc.bdm,
                out |-> applyChanges(calc.meta, calc.bdm)]
    /\ UNCHANGED calcFrame

InitApply ==
    /\ kv = [b \in Blocks |-> NoBlock]
    /\ metaKV = [l \in LabelSet |-> <<>>]
    /\ \E meta \in WorkerMetas, bdm \in BlockDiffMaps :
          calc = [op |-> "apply-args", meta |-> meta, bdm |-> bdm]
    /\ mapping = NoMapping
    /\ readRes = NoRead
    /\ slow = IdleSlow
    /\ ann = NoAnnotations
    /\ InitIdle

SpecApply == InitApply /\ [][CallApplyChanges]_vars

\* ------------------------------------------------------- voxel deltas
\* the values of labelDiff.delta: a block loses or gains voxels of the label,
\* up to more than a block holds
Deltas == (0 - BlockVoxels - 1)..BlockVoxels

\* the block diff maps of a LabelChange with their voxel deltas
DeltaDiffMaps ==
    UNION {[bs -> {[delta |-> d, present |-> pr] : d \in Deltas, pr \in BOOLEAN}] :
              bs \in SUBSET Blocks}

\* the sum of the deltas of a block diff map
DeltaSum(bdm) == SumOver([b \in DOMAIN bdm |-> bdm[b].delta], DOMAIN bdm)

InitDeltas ==
    /\ \E meta \in WorkerMetas, bdm \in DeltaDiffMaps :
          calc = [op |-> "apply-args", meta |-> meta, bdm |-> bdm]
    /\ InitEmpty

SpecDeltas == InitDeltas /\ [][CallApplyChanges]_vars

\* ------------------------------------------------------- MetaCache calls
\* the labels a cache of CacheSize entries is asked for, one more than it holds
CacheLabels == 0..CacheSize

\* the Metas added to the cache
CacheMetas == {[Voxels |-> 0, Blocks |-> <<b>>] : b \in Blocks}

\* cache.AddLabelMeta(label, meta); adds records the calls made so far
CallAddLabelMeta(label, meta) ==
    /\ calc.op \in {"cache", "add"}
    /\ Len(calc.adds) <= CacheSize
    /\ calc' = [calc EXCEPT !.op = "add",
                            !.c = AddLabelMeta(calc.c, label, meta, calc.now + 1),
                            !.now = calc.now + 1,
                            !.adds = Append(calc.adds, [label |-> label, meta |-> meta])]
    /\ UNCHANGED calcFrame

\* cache.GetLabelMeta(label): the cached Meta with its access time refreshed,
\* or nil
CallCacheGetLabelMeta(label) ==
    /\ calc.op \in {"cache", "add"}
    /\ IF CacheHit(calc.c, label)
       THEN calc' = [calc EXCEPT !.op = "get", !.label = label,
                                 !.res = [nil |-> FALSE, meta |-> calc.c.avail[label].meta],
                                 !.c = CacheTouch(calc.c, label, calc.now + 1),
                                 !.now = calc.now + 1]
       ELSE calc' = [calc EXCEPT !.op = "get", !.label = label,
                                 !.res = [nil |-> TRUE, meta |-> EmptyMeta]]
    /\ UNCHANGED calcFrame

NextCache ==
    \/ \E label \in CacheLabels, meta \in CacheMetas : CallAddLabelMeta(label, meta)
    \/ \E label \in CacheLabels : CallCacheGetLabelMeta(label)

\* a cache as MakeMetaCache returns it
InitCache ==
    /\ kv = [b \in Blocks |-> NoBlock]
    /\ metaKV = [l \in LabelSet |-> <<>>]
    /\ calc = [op |-> "cache", c |-> MakeMetaCache(CacheSize), now |-> 0, adds |-> <<>>,
               label |-> 0, res |-> [nil |-> TRUE, meta |-> EmptyMeta]]
    /\ mapping = NoMapping
    /\ readRes = NoRead
    /\ slow = IdleSlow
    /\ ann = NoAnnotations
    /\ InitIdle

SpecCache == InitCache /\ [][NextCache]_vars

\* ------------------------------------------------------- one aggregator
\* the BlockChanges the callbacks of one PUT may send: for a block, the
\* analysis of a mutation (or, with no prior block, of an ingest)
BlockChangesOf(b) ==
    {handleIndexBlockMutate(b, prev, data) : prev \in Contents \cup {NoBlock}, data \in Contents}

\* the BlockChanges of a PUT in the order sent: at most one per block
SentSequences ==
    {q \in UNION {[1..n -> UNION {BlockChangesOf(b) : b \in Blocks}] : n \in 0..MaxBlock} :
        \A i, j \in 1..Len(q) : i # j => q[i].block # q[j].block}

\* a callback of the PUT sends its BlockChange (ch <- bc)
AggSend ==
    /\ calc.op = "agg"
    /\ calc.todo # <<>>
    /\ ~chClosed[1]
    /\ blockCh' = [blockCh EXCEPT ![1] = Append(@, Head(calc.todo))]
    /\ calc' = [calc EXCEPT !.todo = Tail(calc.todo)]
    /\ UNCHANGED <<kv, metaKV, mutationID, extents, tokens, put, nPuts, task, callbacks, lateCallback,
                   chClosed, agg, indexCh, worker, cache, clock, faults, panicked,
                   histVars, batchVars, readVars, slow, ann>>

\* PutVoxels closes the channel once every task has returned
AggClose ==
    /\ calc.op = "agg"
    /\ calc.todo = <<>>
    /\ ~chClosed[1]
    /\ chClosed' = [chClosed EXCEPT ![1] = TRUE]
    /\ UNCHANGED <<kv, metaKV, mutationID, extents, tokens, put, nPuts, task, callbacks, lateCallback,
                   blockCh, agg, indexCh, worker, cache, clock, faults, panicked,
                   histVars, batchVars, readVars, auxVars>>

\* the aggregator sends the LabelChange of a label; out records the sends
AggDispatchRecorded(l) ==
    /\ AggDispatch(1, l)
    /\ calc' = [calc EXCEPT !.out = Append(@, [label |-> l, bdm |-> agg[1].ldm[l]])]
    /\ UNCHANGED <<batchVars, readVars, slow, ann>>

NextAgg ==
    \/ AggSend
    \/ AggClose
    \/ /\ AggReceive(1)
       /\ UNCHANGED pipeFrame
    \/ /\ AggClosed(1)
       /\ UNCHANGED pipeFrame
    \/ \E l \in LabelSet : AggDispatchRecorded(l)
    \/ /\ \E s \in Shards : WorkerRead(s)
       /\ UNCHANGED pipeFrame
    \/ /\ \E s \in Shards : WorkerWrite(s)
       /\ UNCHANGED pipeFrame

\* a PUT whose callbacks are about to send, its aggregator in the receive loop
InitAgg ==
    /\ kv = [b \in Blocks |-> NoBlock]
    /\ metaKV = [l \in LabelSet |-> <<>>]
    /\ mutationID = 1
    /\ extents = Blocks
    /\ tokens = TokenCapacity
    /\ put = IdlePut
    /\ nPuts = 1
    /\ task = [b \in Blocks |-> "none"]
    /\ callbacks = {}
    /\ lateCallback = FALSE
    /\ blockCh = [p \in Puts |-> <<>>]
    /\ chClosed = [p \in Puts |-> FALSE]
    /\ agg = [p \in Puts |-> [pc |-> IF p = 1 THEN "recv" ELSE "none", ldm |-> [l \in {} |-> 0]]]
    /\ indexCh = [s \in Shards |-> <<>>]
    /\ worker = [s \in Shards |-> IdleWorker]
    /\ cache = [s \in Shards |-> MakeMetaCache(100)]
    /\ clock = 0
    /\ faults = 0
    /\ panicked = FALSE
    /\ putErr = FALSE
    /\ persisted = {}
    /\ sent = [b \in Blocks |-> 0]
    /\ notified = {}
    /\ applied = [l \in LabelSet |-> EmptyMeta]
    /\ reingested = FALSE
    /\ bw = IdleBatch
    /\ bwNotified = {}
    /\ bwCommitted = {}
    /\ mapping = NoMapping
    /\ readRes = NoRead
    /\ slow = IdleSlow
    /\ \E q \in SentSequences : calc = [op |-> "agg", all |-> q, todo |-> q, out |-> <<>>]
    /\ ann = NoAnnotations

\* the callbacks, PutVoxels, the aggregator and the workers keep running
SpecAgg == InitAgg /\ [][NextAgg]_vars /\ WF_vars(NextAgg)

\* ------------------------------------------------------- versions
\* the versions LabelChanges are made at: two branches of the repository,
\* neither an ancestor of the other, so that a write at one is not seen by
\* a read at the other
ChangeVersions == {1, 2}

\* d.GetLabelMeta(ctx, {label}, no bounds) on the records a read at version v
\* resolves to
ReadMetaAt(store, v, label) ==
    LET val == DeserializeData(store[v][label])
    IN IF Len(val) = 0 THEN EmptyMeta ELSE UnmarshalBinary(val)

\* one iteration of indexLabels for a LabelChange of version v: the Meta from
\* the cache or else from the store at v, applyChanges, AddLabelMeta and
\* PutLabelMeta at v.  base is the Meta the iteration started from, was the
\* Meta stored for the label at v before it, prev the change before this one.
IndexLabelsStep(v, label, bdm) ==
    /\ calc.op \in {"index", "indexed"}
    /\ calc.n < MaxChanges
    /\ LET hit == CacheHit(calc.c, label)
           base == IF hit THEN calc.c.avail[label].meta ELSE ReadMetaAt(calc.store, v, label)
           touched == IF hit THEN CacheTouch(calc.c, label, calc.now + 1) ELSE calc.c
           meta == applyChanges(base, bdm)
       IN calc' = [op |-> "indexed",
                   c |-> AddLabelMeta(touched, label, meta, calc.now + 2),
                   now |-> calc.now + 2,
                   store |-> [calc.store EXCEPT ![v][label] = SerializeData(MarshalBinary(meta))],
                   n |-> calc.n + 1,
                   prev |-> calc.change,
                   change |-> [v |-> v, label |-> label, bdm |-> bdm],
                   base |-> base,
                   was |-> ReadMetaAt(calc.store, v, label)]
    /\ UNCHANGED calcFrame

NextVersions ==
    \E v \in ChangeVersions, label \in LabelSet, bdm \in BlockDiffs : IndexLabelsStep(v, label, bdm)

\* a shard worker at its start, on a store without Metas
InitVersions ==
    /\ kv = [b \in Blocks |-> NoBlock]
    /\ metaKV = [l \in LabelSet |-> <<>>]
    /\ calc = [op |-> "index", c |-> MakeMetaCache(100), now |-> 0,
               store |-> [v \in ChangeVersions |-> [l \in LabelSet |-> <<>>]],
               n |-> 0, prev |-> [v |-> 0, label |-> 0, bdm |-> <<>>],
               change |-> [v |-> 0, label |-> 0, bdm |-> <<>>],
               base |-> EmptyMeta, was |-> EmptyMeta]
    /\ mapping = NoMapping
    /\ readRes = NoRead
    /\ slow = IdleSlow
    /\ ann = NoAnnotations
    /\ InitIdle

SpecVersions == InitVersions /\ [][NextVersions]_vars

\* ------------------------------------------------------- version scans
\* the indices of two records of one data instance: those of KeyIndices, one
\* of the same length as another and one that extends another
ScanIndices == KeyIndices \cup {<<8>>, <<7, 0, 0, 0, 1>>}

\* the version range of index i and the key of index j at a version, all of
\* one DataContext
CallScanKeys ==
    /\ calc.op = "scan-args"
    /\ calc' = [op |-> "scan", instance |-> calc.instance, version |-> calc.version,
                i |-> calc.i, j |-> calc.j,
                min |-> MinVersionKey(calc.instance, calc.i),
                max |-> MaxVersionKey(calc.instance, calc.i),
                key |-> DataConstructKey(calc.instance, calc.version, calc.j)]
    /\ UNCHANGED calcFrame

InitScan ==
    /\ \E d \in InstanceIDs, v \in VersionIDs, i \in ScanIndices, j \in ScanIndices :
          calc = [op |-> "scan-args", instance |-> d, version |-> v, i |-> i, j |-> j]
    /\ InitEmpty

SpecScan == InitScan /\ [][CallScanKeys]_vars

\* ------------------------------------------------------- properties
\* the stored Meta of a label, if any
HasMeta(l) == Len(metaKV[l]) # 0
StoredMeta(l) == UnmarshalBinary(DeserializeData(metaKV[l]))

\* every PutVoxels call has returned and everything it set off has drained
\* through the aggregators and the label workers
Drained ==
    /\ ~panicked
    /\ put.pc = "idle"
    /\ callbacks = {}
    /\ ~lateCallback
    /\ \A p \in Puts :
          /\ blockCh[p] = <<>>
          /\ agg[p].pc \in {"none", "dispatch"}
          /\ DOMAIN agg[p].ldm = {}
    /\ \A s \in Shards : indexCh[s] = <<>> /\ worker[s].pc = "idle"

\* C1: every stored Meta's Blocks list is strictly ascending (hence without
\* duplicates) after any sequence of label changes applied by the label workers
C1_BlocksStrictlyAscending ==
    \A l \in LabelSet : HasMeta(l) => IsSorted(StoredMeta(l).Blocks)

\* C1 witness: a mutate PUT over both blocks has drained; the only label ever
\* stored is in both blocks, so a block already listed was reported present again
C1_Witness ==
    /\ Drained
    /\ nPuts = 2
    /\ faults = 0
    /\ notified = {<<1, "MutateBlockEvent">>, <<2, "MutateBlockEvent">>}
    /\ \E l \in LabelSet :
          /\ HasMeta(l)
          /\ StoredMeta(l) = [Voxels |-> 0, Blocks |-> <<1, 2>>]
          /\ \A k \in LabelSet \ {l} : ~HasMeta(k)

\* C2: once everything has drained (no storage error), a Meta record is stored
\* only for labels whose block list is non-empty
C2_NoMetaForLabelWithoutBlocks ==
    (Drained /\ faults = 0) =>
        \A l \in LabelSet : HasMeta(l) => StoredMeta(l).Blocks # <<>>

\* the number of voxels of label l in the blocks listed by a Meta
RECURSIVE VoxelsIn(_, _)
VoxelsIn(l, blocks) ==
    IF blocks = <<>> THEN 0 ELSE kv[blocks[1]][l] + VoxelsIn(l, Tail(blocks))

\* C3: once everything has drained (no storage error, no ingest over existing
\* blocks), each Meta's Voxels is the number of voxels of the label in its Blocks
C3_VoxelsMatchBlocks ==
    (Drained /\ faults = 0 /\ ~reingested) =>
        \A l \in LabelSet :
            HasMeta(l) => StoredMeta(l).Voxels = VoxelsIn(l, StoredMeta(l).Blocks)

\* C4: every LabelChange is in the channel of shard label % numLabelHandlers,
\* no two workers are in a read-modify-write of the same label, and the stored
\* Meta of every label is the result of all changes stored for it (none lost)
C4_SerialReadModifyWrite ==
    /\ \A s \in Shards : \A i \in 1..Len(indexCh[s]) :
          indexCh[s][i].label % numLabelHandlers = s
    /\ \A s, t \in Shards :
          (s # t /\ worker[s].pc = "rmw" /\ worker[t].pc = "rmw")
              => worker[s].change.label # worker[t].change.label
    /\ \A l \in LabelSet : GetLabelMeta({l}, NoBounds) = applied[l]

\* C4 witness: a worker is in the read-modify-write of a label while a change
\* of a later PUT for the same label waits in its channel
C4_Witness ==
    \E s \in Shards :
        /\ worker[s].pc = "rmw"
        /\ indexCh[s] # <<>>
        /\ Head(indexCh[s]).label = worker[s].change.label
        /\ Head(indexCh[s]).bdm # worker[s].change.bdm

\* C5: when the PUT has returned and no callback goroutine is left to run, one
\* BlockChange was sent for each block persisted and none for any other block
C5_OneBlockChangePerPersistedBlock ==
    (put.pc = "idle" /\ callbacks = {} /\ (lateCallback => panicked)) =>
        \A b \in Blocks : sent[b] = (IF b \in persisted THEN 1 ELSE 0)

\* C6: a BlockChange or block event of a block is emitted only after the store
\* write of that block completed successfully
C6_EmitOnlyAfterWrite ==
    \A b \in Blocks :
        (sent[b] > 0 \/ \E e \in {"IngestBlockEvent", "MutateBlockEvent"} : <<b, e>> \in notified)
            => b \in persisted

\* C6 witness: on the buffered path block 1 was written and its callback has
\* sent, while the write of block 2 completed with an error and nothing was sent
C6_Witness ==
    /\ put.buffered
    /\ sent[1] = 1
    /\ 1 \in persisted
    /\ task[2] = "done"
    /\ callbacks = {}
    /\ 2 \notin persisted
    /\ sent[2] = 0

\* C7: subscribers have been notified of a block's event only when the batch
\* holding that block's write has been committed (so also when the call
\* returned an error)
C7_NotifiedOnlyAfterCommit == bwNotified \subseteq bwCommitted

\* the labels whose Metas a read of the label draws on
ReadLabels(label) == IF mapping.nil THEN {label} ELSE ConstituentLabels(label)

\* the read returned nothing: no bytes, not found, no error, no panic
ReadAbsent == ~readRes.panic /\ ~readRes.err /\ ~readRes.found /\ readRes.data.nil

\* C9: a sparse volume read of a label that the label map reports as merged
\* into another label returns absent, with no error and without crashing
C9_MergedLabelReadsAbsent ==
    (readRes.op # "none" /\ ~mapping.nil /\ FinalLabel(readRes.label)) => ReadAbsent

\* C10: a sparse volume read of a label that has no stored Meta (nor has any
\* label merged into it), with no store failure, returns absent and no error
C10_UnwrittenLabelReadsAbsent ==
    (/\ readRes.op # "none"
     /\ readRes.fail = "none"
     /\ ~(~mapping.nil /\ FinalLabel(readRes.label))
     /\ \A l \in ReadLabels(readRes.label) : ~HasMeta(l))
    => ReadAbsent

\* every block has been dispatched and no decoder has a block it can still
\* take, nor the collector a result
SlowQuiescent ==
    /\ slow.pc = "wait"
    /\ slow.getCh = <<>>
    /\ \A n \in Decoders : slow.sendCh[n] = <<>> \/ ~slow.running[n]

\* C11: in getLegacySlowRLEs a corrupt block contributes zero runs and the
\* request still completes: once the decoders have nothing left to decode, the
\* collector has received one result per dispatched block (so wg.Wait returns)
C11_CorruptBlockStillCompletes ==
    SlowQuiescent => (slow.collected /\ slow.numBlocks = slow.totBlocks)

\* binary.LittleEndian.Uint32 of the 4 bytes after offset off
Uint32At(b, off) ==
    b[off + 1] + 256 * b[off + 2] + 65536 * b[off + 3] + 16777216 * b[off + 4]

\* a 12-byte header followed by 16-byte runs, bytes 4..8 zero and bytes 8..12
\* the number of runs
WellFormedVolume(b) ==
    /\ Len(b) >= 12
    /\ (Len(b) - 12) % 16 = 0
    /\ Uint32At(b, 4) = 0
    /\ Uint32At(b, 8) * 16 = Len(b) - 12

\* C12: every non-absent sparse volume returned by getLegacySlowRLEs (in any
\* order in which the decoders finish), getLegacyRLEs and GetSparseCoarseVol
\* is a 12-byte header and 16-byte runs, with 0 at bytes 4..8 and the number
\* of runs at bytes 8..12
C12_HeaderCountsRuns ==
    (slow.pc = "done" /\ ~slow.res.data.nil) => WellFormedVolume(slow.res.data.bytes)

\* C12 witness: the slow variant returned two runs whose blocks were collected
\* in the reverse of the order in which they were dispatched
C12_Witness ==
    /\ slow.pc = "done"
    /\ ~slow.res.data.nil
    /\ Len(slow.res.data.bytes) = 44
    /\ slow.res.data.bytes[13] = 2
    /\ slow.res.data.bytes[29] = 1

\* the points of block izyx
BlockPoints(izyx) ==
    {p \in (MinPoint(izyx)[1]..MaxPoint(izyx)[1]) \X (MinPoint(izyx)[2]..MaxPoint(izyx)[2])
             \X (MinPoint(izyx)[3]..MaxPoint(izyx)[3]) : TRUE}

\* the label of the voxel at point p in the label volume of block izyx
LabelAt(data, izyx, p) ==
    LET q == [i \in 1..3 |-> p[i] - MinPoint(izyx)[i]]
    IN data[(q[3] * BlockSize[2] + q[2]) * BlockSize[1] + q[1] + 1]

\* the voxels a sparse volume of the label set holds
Wanted(data, izyx, lbls) ==
    {p \in BlockPoints(izyx) : LabelAt(data, izyx, p) # 0 /\ LabelAt(data, izyx, p) \in lbls}

\* the voxels of a run
RunVoxels(r) == {<<r.start[1] + k, r.start[2], r.start[3]>> : k \in 0..(r.run - 1)}

\* Z-then-Y-then-X order of points
BeforeZYX(p, q) ==
    \/ p[3] < q[3]
    \/ p[3] = q[3] /\ p[2] < q[2]
    \/ p[3] = q[3] /\ p[2] = q[2] /\ p[1] < q[1]

\* C13: the runs addRLEs emits, in Z-then-Y-then-X order, cover exactly the
\* voxels whose label is non-zero and in the label set; every run lies in one
\* X row of the block and is maximal in it, the run lengths add up to the
\* number of such voxels, and the run count and the 16 bytes per run agree
C13_RunsCoverWantedVoxels ==
    calc.op = "addRLEs" =>
        LET out == calc.out
            wanted == Wanted(calc.data, calc.izyx, calc.lbls)
            len == [i \in 1..Len(out.runs) |-> out.runs[i].run]
        IN /\ ~out.err
           /\ out.newRuns = Len(out.runs)
           /\ Len(out.serialization) = 16 * out.newRuns
           /\ \A i \in 1..Len(out.runs) :
                 /\ out.runs[i].run >= 1
                 /\ RunVoxels(out.runs[i]) \subseteq wanted
                 /\ <<out.runs[i].start[1] - 1, out.runs[i].start[2], out.runs[i].start[3]>>
                       \notin wanted
                 /\ <<out.runs[i].start[1] + out.runs[i].run, out.runs[i].start[2],
                       out.runs[i].start[3]>> \notin wanted
           /\ UNION {RunVoxels(out.runs[i]) : i \in 1..Len(out.runs)} = wanted
           /\ SumOver(len, 1..Len(out.runs)) = Cardinality(wanted)
           /\ \A i, j \in 1..Len(out.runs) :
                 i < j => BeforeZYX(out.runs[i].start, out.runs[j].start)

\* C13 witness: label 0 is asked for along with label 1; the first row holds
\* two runs around a voxel of label 0, and a run ends a row where the next row
\* starts with a voxel of the set
C13_Witness ==
    /\ calc.op = "addRLEs"
    /\ calc.lbls = {0, 1}
    /\ calc.data[1] = 1 /\ calc.data[2] = 0 /\ calc.data[3] = 1 /\ calc.data[4] = 1
    /\ calc.out.newRuns >= 3
    /\ calc.out.runs[1].run = 1
    /\ calc.out.runs[2].run = 1
    /\ calc.out.runs[3].start[2] = calc.out.runs[1].start[2] + 1

\* the labels of a set that have a stored Meta, and the blocks these list
WithMeta(lbls) == {l \in lbls : HasMeta(l)}
ListedBlocks(lbls) ==
    UNION {{StoredMeta(l).Blocks[i] : i \in 1..Len(StoredMeta(l).Blocks)} : l \in WithMeta(lbls)}

\* C14: GetLabelMeta of a label set returns the blocks listed by the stored
\* Metas of those labels, each once and in ascending order, with the sum of
\* their voxel counts; with block bounds only the blocks inside the bounds
\* are returned and the voxel count is 0
C14_UnionOfBlocksSumOfVoxels ==
    calc.op = "GetLabelMeta" =>
        LET out == calc.out
            stored == [l \in LabelSet |-> IF HasMeta(l) THEN StoredMeta(l).Voxels ELSE 0]
            blocks == IF calc.bounds.set
                      THEN {b \in ListedBlocks(calc.lbls) : b <= calc.bounds.maxX}
                      ELSE ListedBlocks(calc.lbls)
        IN /\ \A i \in 1..(Len(out.Blocks) - 1) : out.Blocks[i] < out.Blocks[i + 1]
           /\ {out.Blocks[i] : i \in 1..Len(out.Blocks)} = blocks
           /\ out.Voxels = IF calc.bounds.set THEN 0 ELSE SumOver(stored, calc.lbls)

\* C14 witnesses: two labels whose Metas share a block and have voxel counts,
\* read without bounds; and the same read clipped by block bounds
C14_Witness ==
    /\ calc.op = "GetLabelMeta"
    /\ calc.lbls = {0, 1}
    /\ HasMeta(0) /\ StoredMeta(0) = [Voxels |-> 1, Blocks |-> <<1, 2>>]
    /\ HasMeta(1) /\ StoredMeta(1) = [Voxels |-> 1, Blocks |-> <<2>>]
    /\ ~calc.bounds.set
    /\ calc.out = [Voxels |-> 2, Blocks |-> <<1, 2>>]

\* C15: a data key is the byte 0x01, the 4 bytes of the instance ID, the
\* index and the 4 bytes of the version ID; a metadata key is the byte 0x00
\* and the index; IndexFromKey of the context that built a key returns the
\* index the key was built from
C15_KeyLayoutAndRoundTrip ==
    /\ (calc.op = "key" /\ calc.ctx = "data") =>
          /\ Len(calc.key) = 1 + 4 + Len(calc.index) + 4
          /\ calc.key[1] = 1
          /\ SubSeq(calc.key, 2, 5) = BE32(calc.instance)
          /\ SubSeq(calc.key, 6, 5 + Len(calc.index)) = calc.index
          /\ SubSeq(calc.key, 6 + Len(calc.index), Len(calc.key)) = BE32(calc.version)
          /\ calc.parsed["data"] # NotParsed => calc.parsed["data"] = KeyIndex(calc.index)
    /\ (calc.op = "key" /\ calc.ctx = "metadata") =>
          /\ calc.key = <<0>> \o calc.index
          /\ calc.parsed["metadata"] # NotParsed =>
                calc.parsed["metadata"] = KeyIndex(calc.index)

\* C15 witness: the round trip of a data key with the empty index
C15_Witness ==
    /\ calc.op = "key"
    /\ calc.ctx = "data"
    /\ calc.index = <<>>
    /\ calc.version = U32(0, 256)
    /\ calc.key = <<1, 0, 1, 0, 2, 0, 0, 1, 0>>
    /\ calc.parsed["data"] = KeyIndex(<<>>)

\* a parser ran on the key and returned an index
Accepted(p) == calc.parsed[p] # NotParsed /\ ~calc.parsed[p].err /\ ~calc.parsed[p].panic

\* a parser ran on the key and returned an error and no index
Rejected(p) == calc.parsed[p] # NotParsed => calc.parsed[p] = KeyErr

\* C16: the metadata parser rejects every key whose first byte is not 0x00,
\* data keys among them; the data parser and KeyToIndexZYX reject every key
\* whose first byte is not 0x01, metadata keys among them; no key is accepted
\* by the parsers of both families
C16_WrongFamilyRejected ==
    calc.op = "key" =>
        /\ (calc.key # <<>> /\ calc.key[1] # 0) => Rejected("metadata")
        /\ (calc.key # <<>> /\ calc.key[1] # 1) => (Rejected("data") /\ Rejected("zyx"))
        /\ calc.ctx = "data" => Rejected("metadata")
        /\ calc.ctx = "metadata" => (Rejected("data") /\ Rejected("zyx"))
        /\ ~(Accepted("metadata") /\ (Accepted("data") \/ Accepted("zyx")))

\* C16 witness: all three parsers ran on a data key of a block coordinate
C16_Witness ==
    /\ calc.op = "key"
    /\ calc.ctx = "data"
    /\ Len(calc.index) = 12
    /\ calc.parsed["metadata"] = KeyErr
    /\ Accepted("data")
    /\ Accepted("zyx")

\* bytes.Compare(a, b) <= 0: lexicographic order of byte strings
RECURSIVE LexLeq(_, _)
LexLeq(a, b) ==
    IF a = <<>> THEN TRUE
    ELSE IF b = <<>> THEN FALSE
    ELSE IF a[1] # b[1] THEN a[1] < b[1]
    ELSE LexLeq(Tail(a), Tail(b))

\* C17: the key of an index at any version lies between the index's min and
\* max version keys in byte order; these share the key's prefix, instance
\* and index and end in version 0 and MaxVersionID
C17_VersionKeysBracket ==
    (calc.op = "key" /\ calc.range.set) =>
        LET n == Len(calc.key) - 4
        IN /\ LexLeq(calc.range.min, calc.key)
           /\ LexLeq(calc.key, calc.range.max)
           /\ SubSeq(calc.range.min, 1, n) = SubSeq(calc.key, 1, n)
           /\ SubSeq(calc.range.max, 1, n) = SubSeq(calc.key, 1, n)
           /\ SubSeq(calc.range.min, n + 1, n + 4) = <<0, 0, 0, 0>>
           /\ SubSeq(calc.range.max, n + 1, n + 4) = <<255, 255, 255, 255>>
           /\ Len(calc.range.min) = n + 4
           /\ Len(calc.range.max) = n + 4

\* C17 witness: a key strictly between its min and max version keys
C17_Witness ==
    /\ calc.op = "key"
    /\ calc.range.set
    /\ calc.version = U32(0, 256)
    /\ calc.index = <<0, 255>>
    /\ calc.range.min # calc.key
    /\ calc.range.max # calc.key

\* the ancestors of a version in a DAG, the version included
RECURSIVE Ancestors(_, _)
Ancestors(parent, v) == IF v = 0 THEN {} ELSE {v} \cup Ancestors(parent, parent[v])

\* the ancestors of the target that hold a copy
HoldingAncestors == {a \in Ancestors(calc.parent, calc.target) : calc.copies[a] # 0}

\* C18: VersionedKeyValue returns the copy of the nearest ancestor of the
\* target (the target included) that holds one, and nil if no ancestor holds
\* a copy: a copy at an ancestor is returned unless a version on the path
\* from it to the target holds a copy; a second call returns the same
C18_NearestAncestorCopy ==
    (calc.op = "resolved") =>
        /\ calc.result.nil = (HoldingAncestors = {})
        /\ ~calc.result.nil =>
              /\ calc.result.version \in HoldingAncestors
              /\ calc.result.value = calc.copies[calc.result.version]
              /\ \A a \in HoldingAncestors : a \in Ancestors(calc.parent, calc.result.version)
        /\ calc.calls = 2 => calc.result = calc.first

\* C18 witness: version 3 branches from version 1; the copy of version 2 is
\* not on the path and the copy of version 1 is returned, twice
C18_Witness ==
    /\ calc.op = "resolved"
    /\ calc.calls = 2
    /\ calc.target = 3
    /\ calc.parent[3] = 1
    /\ calc.copies[3] = 0 /\ calc.copies[2] = 2 /\ calc.copies[1] = 1
    /\ calc.result = [nil |-> FALSE, version |-> 1, value |-> 1]

\* every block entry of a Meta is a 12-byte IZYX string
WellFormedMeta(m) == \A k \in 1..Len(m.Blocks) : Len(m.Blocks[k]) = 12

\* byte i (from 0) of a uint64 held as 16-bit limbs
ByteOf(v, i) == IF i % 2 = 0 THEN v[i \div 2 + 1] % 256 ELSE v[i \div 2 + 1] \div 256

\* C19: the encoding of a Meta with 12-byte block entries is the 8 bytes of
\* the voxel count, least significant first, followed by the entries in list
\* order, 8 + 12 * number of blocks bytes in all; decoding it returns the
\* Meta; decoding fewer than 8 bytes returns an error
C19_MetaRoundTrip ==
    /\ (calc.op \in {"marshalled", "unmarshalled"} /\ calc.src = "meta"
          /\ WellFormedMeta(calc.m)) =>
          /\ Len(calc.bytes) = 8 + 12 * Len(calc.m.Blocks)
          /\ \A i \in 0..7 : calc.bytes[i + 1] = ByteOf(calc.m.Voxels, i)
          /\ \A k \in 1..Len(calc.m.Blocks) :
                SubSeq(calc.bytes, 12 * k - 3, 12 * k + 8) = calc.m.Blocks[k]
          /\ calc.op = "unmarshalled" => calc.out = [err |-> FALSE, meta |-> calc.m]
    /\ (calc.op = "unmarshalled" /\ Len(calc.bytes) < 8) => calc.out = [err |-> TRUE]

\* C19 witness: a Meta of two blocks whose voxel count fills low and high
\* bytes comes back from its 32 bytes
C19_Witness ==
    /\ calc.op = "unmarshalled"
    /\ calc.src = "meta"
    /\ calc.m.Voxels = <<258, 0, 0, 0>>
    /\ calc.m.Blocks = <<<<255, 255, 255, 255, 0, 0, 1, 0, 127, 0, 0, 9>>,
                         <<0, 0, 0, 1, 0, 0, 0, 2, 0, 0, 0, 3>>>>
    /\ Len(calc.bytes) = 32
    /\ calc.bytes[1] = 2 /\ calc.bytes[2] = 1
    /\ calc.out = [err |-> FALSE, meta |-> calc.m]

\* C20: after any sequence of put_elements, move and delete the bucket of
\* every tag holds exactly the elements of the by-block index that carry the
\* tag, as the by-block index holds them, and the bucket of every label
\* exactly those whose position has the label
C20_IndicesDerivedFromBlocks ==
    /\ \A t \in Tags : ann.tag[t] = {x \in Stored : t \in x.tags}
    /\ \A l \in PointLabels : ann.label[l] = {x \in Stored : LabelOfPoint(x.pos) = l}

\* C20 witness: an element tagged t1 only was moved to position 3; an element
\* tagged t2 only points to it, in its by-block and in its tag bucket
C20_Witness ==
    /\ ann.last = "move"
    /\ [pos |-> 3, rels |-> {}, tags |-> {"t1"}] \in ann.tag["t1"]
    /\ [pos |-> 1, rels |-> {3}, tags |-> {"t2"}] \in ann.tag["t2"]
    /\ [pos |-> 1, rels |-> {3}, tags |-> {"t2"}] \in ann.block[1]
    /\ [pos |-> 3, rels |-> {}, tags |-> {"t1"}] \in ann.label[2]

\* the element stored at a position
ElementAt(pos) == CHOOSE x \in Stored : x.pos = pos

C22_DeleteStripsRelationships ==
    [][\A pos \in Points :
          DeleteElement(pos) =>
             /\ \A x \in Stored' : x.pos # pos /\ pos \notin x.rels
             /\ \A x \in Stored \ {ElementAt(pos)} :
                   [pos |-> x.pos, tags |-> x.tags, rels |-> x.rels \ {pos}] \in Stored'
             /\ Cardinality(Stored') = Cardinality(Stored) - 1]_vars

\* C22 witness: after a delete two elements are left, one of them with a
\* relationship to the other
C22_Witness ==
    /\ ann.last = "delete"
    /\ Stored = {[pos |-> 2, rels |-> {3}, tags |-> {"t1", "t2"}],
                 [pos |-> 3, rels |-> {}, tags |-> {"t2"}]}

\* C23: get_elements returns each stored element whose position is inside the
\* box once and no other element; elements of a visited block that lie
\* outside the box are left out
C23_ElementsInsideBox ==
    calc.op = "get_elements" =>
        /\ {calc.out[i] : i \in 1..Len(calc.out)} =
              {x \in Stored : calc.lo <= x.pos /\ x.pos <= calc.hi}
        /\ \A i, j \in 1..Len(calc.out) : calc.out[i] = calc.out[j] => i = j

\* C23 witness: three elements are stored; the box holds position 2 only, its
\* block holds position 1 as well
C23_Witness ==
    /\ calc.op = "get_elements"
    /\ calc.lo = 2 /\ calc.hi = 2
    /\ Cardinality(Stored) = 3
    /\ Len(calc.out) = 1
    /\ calc.out[1].pos = 2

\* aggregateBlockChanges of a PUT has returned: its channel is drained and
\* every label change is dispatched
AggDone(p) == agg[p].pc = "dispatch" /\ DOMAIN agg[p].ldm = {} /\ blockCh[p] = <<>>

\* C24: with aggregators and label shard workers running, the aggregator of
\* every PUT whose channel is closed returns, having consumed the channel and
\* dispatched its label changes
C24_AggregatorTerminates == \A p \in Puts : chClosed[p] ~> AggDone(p)

\* the chunk task of block b of the latest PUT ended without a store write
ChunkFailed(b) ==
    /\ task[b] = "done"
    /\ b \notin persisted
    /\ \A cb \in callbacks : cb.b # b

\* C25: when a PutVoxels call one of whose chunk tasks failed has returned,
\* every other block of the PUT was written and the BlockChange of each was
\* sent on the aggregation channel before the channel was closed
C25_FailedChunkLeavesOthers ==
    (put.pc = "idle" /\ ~putErr /\ \E f \in Blocks : ChunkFailed(f)) =>
        \A b \in Blocks :
            (task[b] = "done" /\ ~ChunkFailed(b)) => (b \in persisted /\ sent[b] = 1)

\* the Meta a read of the store gives for a label
ReadMeta(l) == GetLabelMeta({l}, NoBounds)

\* C26: a shard worker that fails to read or to write the Meta of a
\* LabelChange changes no stored Meta and is back at the head of its loop with
\* the later changes of its channel untouched; the stored Meta of each label is
\* the outcome of the changes that did not fail; and every change on a shard's
\* channel is eventually consumed
C26_WorkerDropsFailedChange ==
    /\ [][\A s \in Shards :
            (WorkerReadFail(s) \/ WorkerWriteFail(s)) =>
                /\ metaKV' = metaKV
                /\ worker'[s] = IdleWorker
                /\ indexCh'[s] = IF worker[s].pc = "idle" THEN Tail(indexCh[s]) ELSE indexCh[s]]_vars
    /\ [](\A l \in LabelSet : ReadMeta(l) = applied[l])
    /\ \A s \in Shards :
          (indexCh[s] # <<>>) ~> (indexCh[s] = <<>> /\ worker[s].pc = "idle")

\* C26 witness: shard 0 has not consumed anything yet (its channel and the
\* aggregator each still hold a change of label 0), so the one failure was a
\* change of label 1 on shard 1; the other change on shard 1, which adds
\* block 2 to the stored <<1>>, was persisted and shard 1 has drained
C26_Witness ==
    /\ faults = 1
    /\ indexCh[0] # <<>> /\ worker[0].pc = "idle" /\ 0 \in DOMAIN agg[1].ldm
    /\ indexCh[1] = <<>> /\ worker[1].pc = "idle" /\ 1 \notin DOMAIN agg[1].ldm
    /\ ReadMeta(1).Blocks = <<1, 2>>
    /\ ReadMeta(0) = applied[0]

\* bits 0 and 1 of a flag byte
Bit0(f) == f % 2 = 1
Bit1(f) == (f \div 2) % 2 = 1

\* C27: the BlockChange of a written block holds a flag for exactly the labels
\* of the old block (mutation only) or the new block, with bit 0 set iff the
\* label is in the old block and bit 1 set iff it is in the new block; the
\* aggregator then records present = true for the (label, block) iff bit 1 is
\* set, present = false iff only bit 0 is set, and leaves every other entry
\* of its label diff map as it was
C27_FlagsAndPresent ==
    calc.op = "flags" =>
        \A l \in LabelSet :
            LET inOld == calc.mutate /\ l \in BlockLabels(calc.prev)
                inNew == l \in BlockLabels(calc.data)
                before == IF l \in DOMAIN calc.ldm THEN calc.ldm[l] ELSE <<>>
            IN /\ (l \in DOMAIN calc.bc.present) = (inOld \/ inNew)
               /\ l \in DOMAIN calc.bc.present =>
                     /\ Bit0(calc.bc.present[l]) = inOld
                     /\ Bit1(calc.bc.present[l]) = inNew
                     /\ calc.bc.present[l] \in {1, 2, 3}
                     /\ calc.out[l][calc.block].present = Bit1(calc.bc.present[l])
                     /\ \A b \in DOMAIN calc.out[l] \ {calc.block} :
                           b \in DOMAIN before /\ calc.out[l][b] = before[b]
                     /\ DOMAIN before \subseteq DOMAIN calc.out[l]
               /\ l \notin DOMAIN calc.bc.present =>
                     IF l \in DOMAIN calc.ldm
                     THEN l \in DOMAIN calc.out /\ calc.out[l] = calc.ldm[l]
                     ELSE l \notin DOMAIN calc.out

\* C27 witness: a mutation of block 1 from label 0 to label 1 gives label 0
\* the flags 0x01 and label 1 the flags 0x02; the aggregator, which held
\* block 1 as present for label 0, now holds it as absent for label 0 and
\* present for label 1
C27_Witness ==
    /\ calc.op = "flags"
    /\ calc.mutate
    /\ calc.block = 1
    /\ calc.bc.present = (0 :> 1 @@ 1 :> 2)
    /\ calc.ldm = (0 :> (1 :> [delta |-> 0, present |-> TRUE]))
    /\ calc.out = (0 :> (1 :> [delta |-> 0, present |-> FALSE])
                   @@ 1 :> (1 :> [delta |-> 0, present |-> TRUE]))

\* the entries of a block list
BlocksOf(list) == {list[i] : i \in 1..Len(list)}

\* C28: applyChanges yields the block list of (previous blocks minus the
\* blocks of bdm that are absent) union (the blocks of bdm that are present),
\* each once and in order; a block not in bdm is listed iff it was; and when
\* no absent block was listed and every present block was, the list is as
\* it was
C28_ApplyChangesBlockSet ==
    calc.op = "applyChanges" =>
        LET before == BlocksOf(calc.meta.Blocks)
            add == {b \in DOMAIN calc.bdm : calc.bdm[b].present}
            del == {b \in DOMAIN calc.bdm : ~calc.bdm[b].present}
        IN /\ BlocksOf(calc.out.Blocks) = (before \ del) \cup add
           /\ IsSorted(calc.out.Blocks)
           /\ \A b \in Blocks \ DOMAIN calc.bdm :
                 (b \in BlocksOf(calc.out.Blocks)) = (b \in before)
           /\ (del \cap before = {} /\ add \subseteq before) =>
                 calc.out.Blocks = calc.meta.Blocks

\* C28 witness: on the list <<1>>, a change that marks block 1 absent and
\* block 2 present leaves <<2>>
C28_Witness ==
    /\ calc.op = "applyChanges"
    /\ calc.meta.Blocks = <<1>>
    /\ calc.bdm = (1 :> [delta |-> 0, present |-> FALSE] @@ 2 :> [delta |-> 0, present |-> TRUE])
    /\ calc.out.Blocks = <<2>>

\* the labels of the AddLabelMeta calls made so far and the Meta of the latest
\* call for a label
AddedLabels == {calc.adds[i].label : i \in 1..Len(calc.adds)}
LatestAdded(label) ==
    calc.adds[CHOOSE i \in 1..Len(calc.adds) :
                 /\ calc.adds[i].label = label
                 /\ \A j \in (i + 1)..Len(calc.adds) : calc.adds[j].label # label].meta

\* C29: GetLabelMeta(label) after AddLabelMeta(label, meta), with no more
\* labels added than the cache holds (so that nothing was evicted), returns
\* the Meta of the latest AddLabelMeta of the label, not nil
C29_CacheServesHits ==
    (calc.op = "get" /\ calc.label \in AddedLabels /\ Cardinality(AddedLabels) <= CacheSize) =>
        calc.res = [nil |-> FALSE, meta |-> LatestAdded(calc.label)]

\* C30: after AddLabelMeta calls for as many distinct labels as the cache
\* holds and then for one more label, the cache holds every label added but
\* the first (the least recently accessed), the new one included
C30_EvictsLeastRecent ==
    (calc.op = "add" /\ Len(calc.adds) = CacheSize + 1
                    /\ Cardinality(AddedLabels) = CacheSize + 1) =>
        DOMAIN calc.c.avail = {calc.adds[i].label : i \in 2..(CacheSize + 1)}

\* the putChunk tasks that hold a HandlerToken
TokenHolders == {b \in Blocks : task[b] = "start"}

\* C31: the tasks holding a token are never more than the capacity of the
\* pool, the tokens in the pool and the tokens held add up to the capacity,
\* and a task that ends, on whatever path, puts one token back
C31_TokensConserved ==
    /\ [](/\ Cardinality(TokenHolders) <= TokenCapacity
          /\ tokens >= 0
          /\ tokens + Cardinality(TokenHolders) = TokenCapacity)
    /\ [][\A b \in Blocks :
            (task[b] = "start" /\ task'[b] = "done") => tokens' = tokens + 1]_vars

\* C31 witness: after a storage error, the pool is empty while the tasks of
\* both blocks of a PUT hold a token each
C31_Witness ==
    /\ tokens = 0
    /\ Cardinality(TokenHolders) = TokenCapacity
    /\ faults = 1

\* C32: no callback sends a BlockChange on the aggregation channel of its PUT
\* after PutVoxels closed the channel (such a send is a runtime panic)
C32_NoSendAfterClose == ~panicked

\* the blocks the stored Meta of a label lists
IndexedBlocks(l) == IF HasMeta(l) THEN BlocksOf(StoredMeta(l).Blocks) ELSE {}

\* C33: once the PutVoxels calls, which run one after the other, have
\* drained (no storage error, no ingest over an existing block), the Meta
\* of each label lists a block iff the label is in the block's final
\* contents: the changes of an earlier PUT were applied before those of a
\* later one
C33_LaterPutWins ==
    (Drained /\ faults = 0 /\ ~reingested) =>
        \A l \in LabelSet, b \in Blocks : (b \in IndexedBlocks(l)) = (kv[b][l] > 0)

\* a BlockChange on an aggregation channel says that label l is in block b
\* (SentPresent) or has left it (SentAbsent)
SentPresent(l, b) ==
    \E p \in Puts : \E i \in 1..Len(blockCh[p]) :
        /\ blockCh[p][i].block = b
        /\ l \in DOMAIN blockCh[p][i].present
        /\ Bit1(blockCh[p][i].present[l])
SentAbsent(l, b) ==
    \E p \in Puts : \E i \in 1..Len(blockCh[p]) :
        /\ blockCh[p][i].block = b
        /\ l \in DOMAIN blockCh[p][i].present
        /\ blockCh[p][i].present[l] = presentOld

\* C34: with no storage error and with aggregators and shard workers that
\* keep running, a BlockChange sent on an aggregation channel is eventually
\* reflected in the stored Meta of each label it mentions: the block gets
\* listed for a label it holds and unlisted for a label that left it
C34_BlockChangeEventuallyStored ==
    \A l \in LabelSet, b \in Blocks :
        [](faults = 0) =>
            /\ SentPresent(l, b) ~> (b \in IndexedBlocks(l))
            /\ SentAbsent(l, b) ~> (b \notin IndexedBlocks(l))

\* the BlockChanges of the PUT that mention label l
Mentions(l) == {i \in 1..Len(calc.all) : l \in DOMAIN calc.all[i].present}

C37_FoundIffOccupied ==
    (Drained /\ faults = 0) =>
        \A l \in LabelSet :
            FoundSparseVol(l, NoBounds, "none", "inside").found = (IndexedBlocks(l) # {})

\* C8: a PutVoxels call that returns the alignment error changes no state
C8_RejectChangesNothing ==
    [][(putErr' /\ ~putErr) =>
          UNCHANGED <<pipeVars, persisted, sent, notified, applied, reingested,
                      batchVars>>]_vars

\* C8 witness: a call was rejected while an earlier PUT is still running
C8_Witness ==
    /\ putErr
    /\ put.pc = "spawn"
    /\ mutationID = 1

\* C38: the key of index j at any version lies outside the range from
\* MinVersionKey(i) to MaxVersionKey(i) of any other index i of the same data
\* instance, whatever the lengths of i and j
C38_ScanRangeExcludesOthers ==
    (calc.op = "scan" /\ calc.i # calc.j) =>
        ~(LexLeq(calc.min, calc.key) /\ LexLeq(calc.key, calc.max))

\* C39: WriteStreamingRLE returns: once the blocks of the label have been
\* handed to the RLE writer the writer gets the end of its input, the function
\* receives the writer's final error and returns; it is never left waiting
C39_StreamingRLEReturns == readRes.op = "WriteStreamingRLE" => ~readRes.hang

====
